---- MODULE Spec2Model ----
(***************************************************************************)
(* Model of the mediaflow upload engine: the presign handler               *)
(* (internal/upload/handlers.go), the upload service                       *)
(* (internal/upload/service.go), the profile lookup (config) and the       *)
(* storage client seen through the S3Client interface.                     *)
(*                                                                         *)
(* Go strings that the code concatenates, formats, searches or rewrites    *)
(* are sequences of one-character strings; strings that are only compared  *)
(* (HTTP method, multipart mode, strategy, error code) are TLA+ strings.   *)
(* A Go pointer is Nil or Ptr(v); a Go error is NoErr or Err(text).        *)
(***************************************************************************)
EXTENDS Integers, Sequences, FiniteSets, TLC

\* ------------------------------------------------------------ bounds
\* request sizes 0..MaxSmallMB megabytes, each with -1, 0, +1 bytes
MaxSmallMB == 3
\* request sizes (maxParts - ClampProbe)..(maxParts + ClampProbe) megabytes
ClampProbe == 1
\* wall-clock instants at which a request may arrive
MaxClock == 0

\* ------------------------------------------------------------ string literals
MimeJpeg == <<"i", "m", "a", "g", "e", "/", "j", "p", "e", "g">>
MimeJpegUpper == <<"I", "M", "A", "G", "E", "/", "J", "P", "E", "G">>
MimePng == <<"i", "m", "a", "g", "e", "/", "p", "n", "g">>
MimeMp4 == <<"v", "i", "d", "e", "o", "/", "m", "p", "4">>
MimeText == <<"t", "e", "x", "t", "/", "p", "l", "a", "i", "n">>
KindImage == <<"i", "m", "a", "g", "e">>
KindVideo == <<"v", "i", "d", "e", "o">>
NameAvatar == <<"a", "v", "a", "t", "a", "r">>
NameVideo == <<"v", "i", "d", "e", "o">>
NamePhoto == <<"p", "h", "o", "t", "o">>
NameDefault == <<"d", "e", "f", "a", "u", "l", "t">>
NameMissing == <<"n", "o", "p", "e">>
KeyBaseA == <<"k", "1">>
ExtJpg == <<"j", "p", "g">>
ShardAB == <<"a", "b">>
TemplateSharded == <<"o", "r", "i", "g", "i", "n", "a", "l", "s", "/", "{", "s", "h", "a", "r", "d", "?", "}", "/", "{", "k", "e", "y", "_", "b", "a", "s", "e", "}", ".", "{", "e", "x", "t", "}">>
TemplatePlain == <<"o", "r", "i", "g", "i", "n", "a", "l", "s", "/", "{", "k", "e", "y", "_", "b", "a", "s", "e", "}", ".", "{", "e", "x", "t", "}">>
TemplateDefault == <<"o", "r", "i", "g", "i", "n", "a", "l", "s", "/", "{", "s", "h", "a", "r", "d", "?", "}", "/", "{", "k", "e", "y", "_", "b", "a", "s", "e", "}">>
PhKeyBase == <<"{", "k", "e", "y", "_", "b", "a", "s", "e", "}">>
PhExt == <<"{", "e", "x", "t", "}">>
PhShardOpt == <<"{", "s", "h", "a", "r", "d", "?", "}">>
PhShard == <<"{", "s", "h", "a", "r", "d", "}">>
PhShardOptLead == <<"/", "{", "s", "h", "a", "r", "d", "?", "}">>
PhShardOptTrail == <<"{", "s", "h", "a", "r", "d", "?", "}", "/">>
MsgMimeNotAllowed == <<"m", "i", "m", "e", " ", "t", "y", "p", "e", " ", "n", "o", "t", " ", "a", "l", "l", "o", "w", "e", "d", ":", " ">>
MsgSizeExceeds == <<"f", "i", "l", "e", " ", "s", "i", "z", "e", " ", "e", "x", "c", "e", "e", "d", "s", " ", "m", "a", "x", "i", "m", "u", "m", ":", " ">>
MsgGt == <<" ", ">", " ">>
MsgUploadDetails == <<"f", "a", "i", "l", "e", "d", " ", "t", "o", " ", "c", "r", "e", "a", "t", "e", " ", "u", "p", "l", "o", "a", "d", " ", "d", "e", "t", "a", "i", "l", "s", ":", " ">>
MsgCreateMultipart == <<"f", "a", "i", "l", "e", "d", " ", "t", "o", " ", "c", "r", "e", "a", "t", "e", " ", "m", "u", "l", "t", "i", "p", "a", "r", "t", " ", "u", "p", "l", "o", "a", "d", ":", " ">>
MsgPresignPart == <<"f", "a", "i", "l", "e", "d", " ", "t", "o", " ", "p", "r", "e", "s", "i", "g", "n", " ", "p", "a", "r", "t", " ">>
MsgColon == <<":", " ">>
MsgMethodNotAllowed == <<"M", "e", "t", "h", "o", "d", " ", "n", "o", "t", " ", "a", "l", "l", "o", "w", "e", "d">>
MsgInvalidBody == <<"I", "n", "v", "a", "l", "i", "d", " ", "r", "e", "q", "u", "e", "s", "t", " ", "b", "o", "d", "y">>
MsgKeyBaseRequired == <<"k", "e", "y", "_", "b", "a", "s", "e", " ", "i", "s", " ", "r", "e", "q", "u", "i", "r", "e", "d">>
MsgExtRequired == <<"e", "x", "t", " ", "i", "s", " ", "r", "e", "q", "u", "i", "r", "e", "d">>
MsgMimeRequired == <<"m", "i", "m", "e", " ", "i", "s", " ", "r", "e", "q", "u", "i", "r", "e", "d">>
MsgSizeRequired == <<"s", "i", "z", "e", "_", "b", "y", "t", "e", "s", " ", "m", "u", "s", "t", " ", "b", "e", " ", "g", "r", "e", "a", "t", "e", "r", " ", "t", "h", "a", "n", " ", "0">>
MsgKindRequired == <<"k", "i", "n", "d", " ", "i", "s", " ", "r", "e", "q", "u", "i", "r", "e", "d">>
MsgProfileRequired == <<"p", "r", "o", "f", "i", "l", "e", " ", "i", "s", " ", "r", "e", "q", "u", "i", "r", "e", "d">>
MsgNoProfile == <<"N", "o", " ", "c", "o", "n", "f", "i", "g", "u", "r", "a", "t", "i", "o", "n", " ", "f", "o", "r", " ", "p", "r", "o", "f", "i", "l", "e", ":", " ">>
HintNoProfile == <<"C", "o", "n", "f", "i", "g", "u", "r", "e", " ", "p", "r", "o", "f", "i", "l", "e", " ", "i", "n", " ", "y", "o", "u", "r", " ", "s", "t", "o", "r", "a", "g", "e", " ", "c", "o", "n", "f", "i", "g">>
MsgKindMismatch == <<"K", "i", "n", "d", " ", "m", "i", "s", "m", "a", "t", "c", "h", ":", " ", "e", "x", "p", "e", "c", "t", "e", "d", " ">>
MsgGot == <<",", " ", "g", "o", "t", " ">>
HintMime == <<"C", "h", "e", "c", "k", " ", "a", "l", "l", "o", "w", "e", "d", "_", "m", "i", "m", "e", "s", " ", "i", "n", " ", "u", "p", "l", "o", "a", "d", " ", "c", "o", "n", "f", "i", "g", "u", "r", "a", "t", "i", "o", "n">>
HintSize == <<"R", "e", "d", "u", "c", "e", " ", "f", "i", "l", "e", " ", "s", "i", "z", "e", " ", "o", "r", " ", "c", "h", "e", "c", "k", " ", "s", "i", "z", "e", "_", "m", "a", "x", "_", "b", "y", "t", "e", "s", " ", "i", "n", " ", "c", "o", "n", "f", "i", "g", "u", "r", "a", "t", "i", "o", "n">>
MsgPresignFailed == <<"F", "a", "i", "l", "e", "d", " ", "t", "o", " ", "g", "e", "n", "e", "r", "a", "t", "e", " ", "p", "r", "e", "s", "i", "g", "n", "e", "d", " ", "u", "p", "l", "o", "a", "d", ":", " ">>
SchemeHttp == <<"h", "t", "t", "p">>
SchemeHttps == <<"h", "t", "t", "p", "s">>
SchemeSep == <<":", "/", "/">>
HostA == <<"a", "p", "i", ".", "t", "e", "s", "t">>
StorageDown == <<"s", "t", "o", "r", "a", "g", "e", " ", "d", "o", "w", "n">>
UploadIdA == <<"u", "1">>
UploadIdB == <<"u", "2">>
PathPrefix == <<"/", "v", "1", "/", "u", "p", "l", "o", "a", "d", "s", "/">>
SepComplete == <<"/", "c", "o", "m", "p", "l", "e", "t", "e", "/">>
SepAbort == <<"/", "a", "b", "o", "r", "t", "/">>
MsgInvalidURL == <<"I", "n", "v", "a", "l", "i", "d", " ", "U", "R", "L", " ", "f", "o", "r", "m", "a", "t">>
HintComplete == <<"E", "x", "p", "e", "c", "t", "e", "d", " ", "/", "v", "1", "/", "u", "p", "l", "o", "a", "d", "s", "/", "{", "o", "b", "j", "e", "c", "t", "_", "k", "e", "y", "}", "/", "c", "o", "m", "p", "l", "e", "t", "e", "/", "{", "u", "p", "l", "o", "a", "d", "_", "i", "d", "}">>
HintAbort == <<"E", "x", "p", "e", "c", "t", "e", "d", " ", "/", "v", "1", "/", "u", "p", "l", "o", "a", "d", "s", "/", "{", "o", "b", "j", "e", "c", "t", "_", "k", "e", "y", "}", "/", "a", "b", "o", "r", "t", "/", "{", "u", "p", "l", "o", "a", "d", "_", "i", "d", "}">>
MsgPartsRequired == <<"p", "a", "r", "t", "s", " ", "i", "s", " ", "r", "e", "q", "u", "i", "r", "e", "d", " ", "a", "n", "d", " ", "c", "a", "n", "n", "o", "t", " ", "b", "e", " ", "e", "m", "p", "t", "y">>
MsgCompleteFailed == <<"F", "a", "i", "l", "e", "d", " ", "t", "o", " ", "c", "o", "m", "p", "l", "e", "t", "e", " ", "m", "u", "l", "t", "i", "p", "a", "r", "t", " ", "u", "p", "l", "o", "a", "d", ":", " ">>
MsgAbortFailed == <<"F", "a", "i", "l", "e", "d", " ", "t", "o", " ", "a", "b", "o", "r", "t", " ", "m", "u", "l", "t", "i", "p", "a", "r", "t", " ", "u", "p", "l", "o", "a", "d", ":", " ">>
KeyRaw == <<"r", "a", "w", "/", "k", "1", ".", "j", "p", "g">>
KeyWithComplete == <<"a", "/", "c", "o", "m", "p", "l", "e", "t", "e", "/", "b">>
KeyWithAbort == <<"a", "/", "a", "b", "o", "r", "t", "/", "b">>
PathInvalid == <<"/", "v", "1", "/", "u", "p", "l", "o", "a", "d", "s", "/", "i", "n", "v", "a", "l", "i", "d", "-", "u", "r", "l">>
EtagA == <<"e", "1">>
EtagB == <<"e", "2">>
KeyTest == <<"t", "e", "s", "t", "-", "k", "e", "y">>
SegOriginals == <<"o", "r", "i", "g", "i", "n", "a", "l", "s">>
SegFile == <<"{", "k", "e", "y", "_", "b", "a", "s", "e", "}", ".", "{", "e", "x", "t", "}">>
SegGlued == <<"x", "{", "s", "h", "a", "r", "d", "?", "}">>
Slash == <<"/">>
KeyTest1 == <<"t", "e", "s", "t", "-", "k", "e", "y", "-", "1">>
KeyTest2 == <<"t", "e", "s", "t", "-", "k", "e", "y", "-", "2">>
KeyDifferent == <<"d", "i", "f", "f", "e", "r", "e", "n", "t", "-", "k", "e", "y">>
KeyShardedTest == <<"o", "r", "i", "g", "i", "n", "a", "l", "s", "/", "a", "b", "/", "t", "e", "s", "t", "-", "k", "e", "y", ".", "j", "p", "g">>
KeyPlainTest == <<"o", "r", "i", "g", "i", "n", "a", "l", "s", "/", "t", "e", "s", "t", "-", "k", "e", "y", ".", "j", "p", "g">>

Digit == <<"0", "1", "2", "3", "4", "5", "6", "7", "8", "9">>
HexDigit == <<"0", "1", "2", "3", "4", "5", "6", "7", "8", "9", "a", "b", "c", "d", "e", "f">>
Star == <<"*">>
Empty == <<>>

\* ------------------------------------------------------------ Go values
Nil == [nil |-> TRUE]
Ptr(v) == [nil |-> FALSE, v |-> v]
NoErr == [nil |-> TRUE, msg |-> Empty]
Err(text) == [nil |-> FALSE, msg |-> text]

MB == 1024 * 1024

\* fmt's %d of an int64
RECURSIVE Itoa(_)
Itoa(n) ==
  IF n < 0 THEN <<"-">> \o Itoa(-n)
  ELSE IF n < 10 THEN <<Digit[n + 1]>>
  ELSE Itoa(n \div 10) \o <<Digit[(n % 10) + 1]>>

\* strings.Contains
Contains(s, sub) ==
  \E k \in 0..(Len(s) - Len(sub)) : SubSeq(s, k + 1, k + Len(sub)) = sub

\* strings.ReplaceAll for a non-empty old: leftmost non-overlapping matches
RECURSIVE ReplaceAll(_, _, _)
ReplaceAll(s, old, new) ==
  IF Len(s) < Len(old) THEN s
  ELSE IF SubSeq(s, 1, Len(old)) = old
       THEN new \o ReplaceAll(SubSeq(s, Len(old) + 1, Len(s)), old, new)
       ELSE <<Head(s)>> \o ReplaceAll(Tail(s), old, new)

\* strings.TrimPrefix
TrimPrefix(s, prefix) ==
  IF Len(s) >= Len(prefix) /\ SubSeq(s, 1, Len(prefix)) = prefix
  THEN SubSeq(s, Len(prefix) + 1, Len(s))
  ELSE s

\* strings.Index: position of the first occurrence of sub in s, 0 when there
\* is none (Go's index plus one)
Index(s, sub) ==
  IF Contains(s, sub)
  THEN CHOOSE k \in 1..(Len(s) - Len(sub) + 1) :
         /\ SubSeq(s, k, k + Len(sub) - 1) = sub
         /\ \A j \in 1..(k - 1) : SubSeq(s, j, j + Len(sub) - 1) # sub
  ELSE 0

\* strings.Split for a non-empty separator: the pieces between successive
\* leftmost occurrences of sep
RECURSIVE Split(_, _)
Split(s, sep) ==
  LET k == Index(s, sep)
  IN IF k = 0 THEN <<s>>
     ELSE <<SubSeq(s, 1, k - 1)>> \o Split(SubSeq(s, k + Len(sep), Len(s)), sep)

\* math.Ceil(float64(a) / float64(b)) converted to int, for b > 0 and
\* operands that float64 holds exactly
CeilDiv(a, b) == -((-a) \div b)

\* ------------------------------------------------------------ error codes (types.go)
ErrMimeNotAllowed == "mime_not_allowed"
ErrSizeTooLarge == "size_too_large"
ErrBadRequest == "bad_request"

StatusOK == 200
StatusBadRequest == 400
StatusMethodNotAllowed == 405
StatusInternalServerError == 500

\* ------------------------------------------------------------ profile configuration
ProfileAvatar ==
  [Kind |-> KindImage, AllowedMimes |-> <<MimeJpeg, MimePng>>,
   SizeMaxBytes |-> 3 * MB, MultipartThresholdMB |-> 2, PartSizeMB |-> 1,
   TokenTTLSeconds |-> 900, PathTemplate |-> TemplateSharded,
   EnableSharding |-> TRUE]

ProfileVideo ==
  [Kind |-> KindVideo, AllowedMimes |-> <<MimeMp4>>,
   SizeMaxBytes |-> 101 * MB, MultipartThresholdMB |-> 1, PartSizeMB |-> 1,
   TokenTTLSeconds |-> 900, PathTemplate |-> TemplatePlain,
   EnableSharding |-> FALSE]

ProfilePhoto ==
  [Kind |-> KindImage, AllowedMimes |-> <<MimeJpeg>>,
   SizeMaxBytes |-> 101 * MB, MultipartThresholdMB |-> 2, PartSizeMB |-> 2,
   TokenTTLSeconds |-> 60, PathTemplate |-> TemplateSharded,
   EnableSharding |-> FALSE]

\* a profile whose allow-list is empty
ProfileLocked ==
  [Kind |-> KindImage, AllowedMimes |-> <<>>,
   SizeMaxBytes |-> 3 * MB, MultipartThresholdMB |-> 2, PartSizeMB |-> 1,
   TokenTTLSeconds |-> 900, PathTemplate |-> TemplatePlain,
   EnableSharding |-> FALSE]

NameLocked == <<"l", "o", "c", "k", "e", "d">>

\* DefaultProfile(): the hard-coded fallback
DefaultProfile ==
  [Kind |-> KindImage, AllowedMimes |-> <<MimeJpeg, MimePng>>,
   SizeMaxBytes |-> 10485760, MultipartThresholdMB |-> 15, PartSizeMB |-> 8,
   TokenTTLSeconds |-> 900, PathTemplate |-> TemplateDefault,
   EnableSharding |-> TRUE]

\* StorageConfig.Profiles as loaded
Profiles ==
  (NameAvatar :> ProfileAvatar) @@ (NameVideo :> ProfileVideo) @@
  (NamePhoto :> ProfilePhoto) @@ (NameLocked :> ProfileLocked)

\* variant of GetProfileOf without the fallback for "default"
GetProfileOfConfiguredOnly(profiles, profileName) ==
  IF profileName \in DOMAIN profiles THEN Ptr(profiles[profileName])
  ELSE Nil

\* StorageConfig.GetProfile on a configuration whose Profiles map is profiles
GetProfileOf(profiles, profileName) ==
  IF profileName \in DOMAIN profiles THEN Ptr(profiles[profileName])
  ELSE IF profileName = NameDefault
       THEN IF NameDefault \in DOMAIN profiles
            THEN Ptr(profiles[NameDefault])
            ELSE Ptr(DefaultProfile)
       ELSE Nil

\* h.storageConfig.GetProfile: the lookup in the configuration as loaded
GetProfile(profileName) == GetProfileOf(Profiles, profileName)

\* ------------------------------------------------------------ service helpers
\* variant of isMimeAllowed that compares without regard to letter case
isMimeAllowedFold(mime, allowedMimes) ==
  LET lowerChar(c) ==
        CASE c = "A" -> "a" [] c = "E" -> "e" [] c = "G" -> "g" [] c = "I" -> "i"
          [] c = "J" -> "j" [] c = "M" -> "m" [] c = "P" -> "p" [] OTHER -> c
      lower(str) == [k \in 1..Len(str) |-> lowerChar(str[k])]
  IN \E k \in 1..Len(allowedMimes) : lower(mime) = lower(allowedMimes[k])

\* Service.isMimeAllowed
isMimeAllowed(mime, allowedMimes) ==
  \E k \in 1..Len(allowedMimes) : mime = allowedMimes[k]

\* variant of buildObjectKey that forgets the {shard} placeholder
buildObjectKeyNoShard(template, keyBase, ext, shard) ==
  LET k1 == ReplaceAll(template, PhKeyBase, keyBase)
      k2 == ReplaceAll(k1, PhExt, ext)
  IN IF shard # Empty
     THEN ReplaceAll(k2, PhShardOpt, shard)
     ELSE ReplaceAll(ReplaceAll(ReplaceAll(k2, PhShardOptLead, Empty),
                                PhShardOptTrail, Empty),
                     PhShardOpt, Empty)

\* variant of buildObjectKey that removes only the bare {shard?}
buildObjectKeyBare(template, keyBase, ext, shard) ==
  LET k1 == ReplaceAll(template, PhKeyBase, keyBase)
      k2 == ReplaceAll(k1, PhExt, ext)
  IN IF shard # Empty
     THEN ReplaceAll(ReplaceAll(k2, PhShardOpt, shard), PhShard, shard)
     ELSE ReplaceAll(k2, PhShardOpt, Empty)

\* one pass over the template that replaces each placeholder where it stands
\* and never looks at the text it has put in
RECURSIVE SubstituteOnce(_, _, _, _)
SubstituteOnce(t, keyBase, ext, shard) ==
  LET at(ph) == Len(t) >= Len(ph) /\ SubSeq(t, 1, Len(ph)) = ph
      rest(ph) == SubstituteOnce(SubSeq(t, Len(ph) + 1, Len(t)), keyBase, ext, shard)
  IN IF t = Empty THEN Empty
     ELSE IF at(PhKeyBase) THEN keyBase \o rest(PhKeyBase)
     ELSE IF at(PhExt) THEN ext \o rest(PhExt)
     ELSE IF shard # Empty /\ at(PhShardOpt) THEN shard \o rest(PhShardOpt)
     ELSE IF shard # Empty /\ at(PhShard) THEN shard \o rest(PhShard)
     ELSE IF shard = Empty /\ at(PhShardOptLead) THEN rest(PhShardOptLead)
     ELSE IF shard = Empty /\ at(PhShardOptTrail) THEN rest(PhShardOptTrail)
     ELSE IF shard = Empty /\ at(PhShardOpt) THEN rest(PhShardOpt)
     ELSE <<Head(t)>> \o SubstituteOnce(Tail(t), keyBase, ext, shard)

\* variant of buildObjectKey that substitutes simultaneously over the template
buildObjectKeySimultaneous(template, keyBase, ext, shard) ==
  SubstituteOnce(template, keyBase, ext, shard)

\* Service.buildObjectKey
buildObjectKey(template, keyBase, ext, shard) ==
  LET k1 == ReplaceAll(template, PhKeyBase, keyBase)
      k2 == ReplaceAll(k1, PhExt, ext)
  IN IF shard # Empty
     THEN ReplaceAll(ReplaceAll(k2, PhShardOpt, shard), PhShard, shard)
     ELSE ReplaceAll(ReplaceAll(ReplaceAll(k2, PhShardOptLead, Empty),
                                PhShardOptTrail, Empty),
                     PhShardOpt, Empty)

\* variant of determineStrategy whose auto branch uses >=
determineStrategyGe(multipart, sizeBytes, thresholdMB) ==
  LET thresholdBytes == thresholdMB * 1024 * 1024
  IN CASE multipart = "force" -> "multipart"
       [] multipart = "off" -> "single"
       [] OTHER -> IF sizeBytes >= thresholdBytes THEN "multipart" ELSE "single"

\* Service.determineStrategy
determineStrategy(multipart, sizeBytes, thresholdMB) ==
  LET thresholdBytes == thresholdMB * 1024 * 1024
  IN CASE multipart = "force" -> "multipart"
       [] multipart = "off" -> "single"
       [] OTHER -> IF sizeBytes > thresholdBytes THEN "multipart" ELSE "single"

\* Service.buildRequiredHeaders
buildRequiredHeaders(mime) == [h \in {"Content-Type"} |-> mime]

\* first byte of sha1.Sum([]byte(keyBase)), tabulated for the key bases used
Sha1FirstByte(keyBase) ==
  CASE keyBase = Empty -> 218
    [] keyBase = KeyTest1 -> 26
    [] keyBase = KeyTest2 -> 13
    [] keyBase = KeyDifferent -> 175
    [] keyBase = KeyTest -> 58
    [] keyBase = <<"a">> -> 134
    [] keyBase = <<"b">> -> 233
    [] keyBase = <<"k">> -> 19
    [] keyBase = <<"1">> -> 53
    [] keyBase = <<"a", "a">> -> 224
    [] keyBase = <<"a", "b">> -> 218
    [] keyBase = <<"a", "k">> -> 4
    [] keyBase = <<"a", "1">> -> 242
    [] keyBase = <<"b", "a">> -> 108
    [] keyBase = <<"b", "b">> -> 154
    [] keyBase = <<"b", "k">> -> 184
    [] keyBase = <<"b", "1">> -> 126
    [] keyBase = <<"k", "a">> -> 211
    [] keyBase = <<"k", "b">> -> 70
    [] keyBase = <<"k", "k">> -> 46
    [] keyBase = <<"k", "1">> -> 162
    [] keyBase = <<"1", "a">> -> 155
    [] keyBase = <<"1", "b">> -> 45
    [] keyBase = <<"1", "k">> -> 161
    [] keyBase = <<"1", "1">> -> 23
    [] keyBase = <<"a", "a", "a">> -> 126
    [] keyBase = <<"a", "a", "b">> -> 64
    [] keyBase = <<"a", "a", "k">> -> 30
    [] keyBase = <<"a", "a", "1">> -> 184
    [] keyBase = <<"a", "b", "a">> -> 77
    [] keyBase = <<"a", "b", "b">> -> 198
    [] keyBase = <<"a", "b", "k">> -> 190
    [] keyBase = <<"a", "b", "1">> -> 225
    [] keyBase = <<"a", "k", "a">> -> 118
    [] keyBase = <<"a", "k", "b">> -> 83
    [] keyBase = <<"a", "k", "k">> -> 145
    [] keyBase = <<"a", "k", "1">> -> 66
    [] keyBase = <<"a", "1", "a">> -> 172
    [] keyBase = <<"a", "1", "b">> -> 139
    [] keyBase = <<"a", "1", "k">> -> 155
    [] keyBase = <<"a", "1", "1">> -> 128
    [] keyBase = <<"b", "a", "a">> -> 76
    [] keyBase = <<"b", "a", "b">> -> 135
    [] keyBase = <<"b", "a", "k">> -> 7
    [] keyBase = <<"b", "a", "1">> -> 69
    [] keyBase = <<"b", "b", "a">> -> 255
    [] keyBase = <<"b", "b", "b">> -> 92
    [] keyBase = <<"b", "b", "k">> -> 60
    [] keyBase = <<"b", "b", "1">> -> 230
    [] keyBase = <<"b", "k", "a">> -> 171
    [] keyBase = <<"b", "k", "b">> -> 248
    [] keyBase = <<"b", "k", "k">> -> 14
    [] keyBase = <<"b", "k", "1">> -> 92
    [] keyBase = <<"b", "1", "a">> -> 154
    [] keyBase = <<"b", "1", "b">> -> 100
    [] keyBase = <<"b", "1", "k">> -> 174
    [] keyBase = <<"b", "1", "1">> -> 225
    [] keyBase = <<"k", "a", "a">> -> 144
    [] keyBase = <<"k", "a", "b">> -> 59
    [] keyBase = <<"k", "a", "k">> -> 73
    [] keyBase = <<"k", "a", "1">> -> 113
    [] keyBase = <<"k", "b", "a">> -> 234
    [] keyBase = <<"k", "b", "b">> -> 11
    [] keyBase = <<"k", "b", "k">> -> 235
    [] keyBase = <<"k", "b", "1">> -> 124
    [] keyBase = <<"k", "k", "a">> -> 206
    [] keyBase = <<"k", "k", "b">> -> 231
    [] keyBase = <<"k", "k", "k">> -> 81
    [] keyBase = <<"k", "k", "1">> -> 16
    [] keyBase = <<"k", "1", "a">> -> 171
    [] keyBase = <<"k", "1", "b">> -> 1
    [] keyBase = <<"k", "1", "k">> -> 139
    [] keyBase = <<"k", "1", "1">> -> 93
    [] keyBase = <<"1", "a", "a">> -> 239
    [] keyBase = <<"1", "a", "b">> -> 90
    [] keyBase = <<"1", "a", "k">> -> 54
    [] keyBase = <<"1", "a", "1">> -> 204
    [] keyBase = <<"1", "b", "a">> -> 8
    [] keyBase = <<"1", "b", "b">> -> 56
    [] keyBase = <<"1", "b", "k">> -> 215
    [] keyBase = <<"1", "b", "1">> -> 1
    [] keyBase = <<"1", "k", "a">> -> 20
    [] keyBase = <<"1", "k", "b">> -> 104
    [] keyBase = <<"1", "k", "k">> -> 13
    [] keyBase = <<"1", "k", "1">> -> 35
    [] keyBase = <<"1", "1", "a">> -> 151
    [] keyBase = <<"1", "1", "b">> -> 78
    [] keyBase = <<"1", "1", "k">> -> 169
    [] keyBase = <<"1", "1", "1">> -> 98

\* variant of HexByte that formats with %x of the byte: no leading zero
HexByteUnpadded(b) ==
  IF b < 16 THEN <<HexDigit[b + 1]>>
  ELSE <<HexDigit[(b \div 16) + 1], HexDigit[(b % 16) + 1]>>

\* fmt.Sprintf("%02x", hash[:1])
HexByte(b) == <<HexDigit[(b \div 16) + 1], HexDigit[(b % 16) + 1]>>

\* GenerateShard
GenerateShard(keyBase) == HexByte(Sha1FirstByte(keyBase))

\* maxParts of createUploadDetails
maxParts == 100

\* variant of ValidateRequest that forgets the size check
ValidateRequestMimeOnly(rq, pf) ==
  IF ~isMimeAllowed(rq.Mime, pf.AllowedMimes)
  THEN Err(MsgMimeNotAllowed \o rq.Mime)
  ELSE NoErr

\* variant of ValidateRequest that rejects a size equal to the maximum
ValidateRequestGe(rq, pf) ==
  IF ~isMimeAllowed(rq.Mime, pf.AllowedMimes)
  THEN Err(MsgMimeNotAllowed \o rq.Mime)
  ELSE IF rq.SizeBytes >= pf.SizeMaxBytes
       THEN Err(MsgSizeExceeds \o Itoa(rq.SizeBytes) \o MsgGt \o Itoa(pf.SizeMaxBytes))
       ELSE NoErr

\* variant of ValidateRequest that checks the size before the MIME type
ValidateRequestSizeFirst(rq, pf) ==
  IF rq.SizeBytes > pf.SizeMaxBytes
  THEN Err(MsgSizeExceeds \o Itoa(rq.SizeBytes) \o MsgGt \o Itoa(pf.SizeMaxBytes))
  ELSE IF ~isMimeAllowed(rq.Mime, pf.AllowedMimes)
       THEN Err(MsgMimeNotAllowed \o rq.Mime)
       ELSE NoErr

\* PresignUpload's two validation steps, in the order the code runs them
ValidateRequest(rq, pf) ==
  IF ~isMimeAllowed(rq.Mime, pf.AllowedMimes)
  THEN Err(MsgMimeNotAllowed \o rq.Mime)
  ELSE IF rq.SizeBytes > pf.SizeMaxBytes
       THEN Err(MsgSizeExceeds \o Itoa(rq.SizeBytes) \o MsgGt \o Itoa(pf.SizeMaxBytes))
       ELSE NoErr

\* variant of ChooseShard that drops the request's shard when the profile
\* does not enable sharding
ChooseShardFlagOnly(rq, pf) ==
  IF ~pf.EnableSharding THEN Empty
  ELSE IF rq.Shard = Empty THEN GenerateShard(rq.KeyBase)
  ELSE rq.Shard

\* the shard PresignUpload uses for the key
ChooseShard(rq, pf) ==
  IF rq.Shard = Empty /\ pf.EnableSharding THEN GenerateShard(rq.KeyBase)
  ELSE rq.Shard

\* variant of SingleHeaders that forgets the If-None-Match header
SingleHeadersPlain(hdrs) == hdrs

\* singleHeaders of createUploadDetails: a copy of headers plus If-None-Match
SingleHeaders(hdrs) ==
  [h \in (DOMAIN hdrs) \cup {"If-None-Match"} |->
     IF h = "If-None-Match" THEN Star ELSE hdrs[h]]

\* variant of NumParts without the clamp
NumPartsNoClamp(totalSizeBytes, partSizeMB) ==
  CeilDiv(totalSizeBytes, partSizeMB * 1024 * 1024)

\* numParts of createUploadDetails, after the clamp
NumParts(totalSizeBytes, partSizeMB) ==
  LET partSizeBytes == partSizeMB * 1024 * 1024
      n == CeilDiv(totalSizeBytes, partSizeBytes)
  IN IF n > maxParts THEN maxParts ELSE n

\* variant of PartNumberOf that numbers parts from 0
PartNumberZeroBased(idx) == idx

\* partNumber := i + 1, for the 0-based loop index i
PartNumberOf(idx) == idx + 1

\* the zero value of PartUpload, as make([]PartUpload, n) fills the slice
ZeroPart ==
  [PartNumber |-> 0, Method |-> "", URL |-> Empty, Headers |-> <<>>, ExpiresAt |-> 0]

\* variant of MakePart that hands each part the single path's headers
MakePartGuarded(partNumber, partURL, hdrs, expAt) ==
  [PartNumber |-> partNumber, Method |-> "PUT", URL |-> partURL,
   Headers |-> SingleHeaders(hdrs), ExpiresAt |-> expAt]

\* parts[i] = PartUpload{...}
MakePart(partNumber, partURL, hdrs, expAt) ==
  [PartNumber |-> partNumber, Method |-> "PUT", URL |-> partURL,
   Headers |-> hdrs, ExpiresAt |-> expAt]

\* the UploadDetails returned on the single path
SingleDetails(url, hdrs, expAt) ==
  [Single |-> Ptr([Method |-> "PUT", URL |-> url, Headers |-> hdrs, ExpiresAt |-> expAt]),
   Multipart |-> Nil]

\* variant of MultipartDetails that also fills in a Single descriptor
MultipartDetailsBoth(id, partSizeBytes, ps) ==
  [Single |-> Ptr([Method |-> "PUT", URL |-> Empty, Headers |-> <<>>, ExpiresAt |-> 0]),
   Multipart |-> Ptr([UploadID |-> id, PartSize |-> partSizeBytes, Create |-> Nil,
                      Parts |-> ps, Complete |-> Nil, Abort |-> Nil])]

\* the UploadDetails returned on the multipart path
MultipartDetails(id, partSizeBytes, ps) ==
  [Single |-> Nil,
   Multipart |-> Ptr([UploadID |-> id, PartSize |-> partSizeBytes, Create |-> Nil,
                      Parts |-> ps, Complete |-> Nil, Abort |-> Nil])]

\* PresignUpload's successful return
Success(key, details) ==
  [resp |-> Ptr([ObjectKey |-> key, Upload |-> Ptr(details)]), err |-> NoErr]

\* PresignUpload's return when createUploadDetails failed
DetailsFailure(cause) ==
  [resp |-> Nil, err |-> Err(MsgUploadDetails \o cause)]

\* variant of PartFailure that swallows the error and returns the parts so far
PartFailurePartial(partNumber, ps, cause) ==
  Success(Empty, MultipartDetails(Empty, 0, ps))

\* createUploadDetails' return when presigning part partNumber failed
PartFailure(partNumber, ps, cause) ==
  DetailsFailure(MsgPresignPart \o Itoa(partNumber) \o MsgColon \o cause)

\* ------------------------------------------------------------ storage client
UrlPrefix == <<"s", "3", ":", "/">>
UrlPart == <<"?", "p", "=">>
UrlUpload == <<"&", "u", "=">>

\* URL a successful PresignPutObject returns for a key
PutURL(key) == UrlPrefix \o key

\* URL a successful PresignUploadPart returns
PartURL(key, id, partNumber) ==
  UrlPrefix \o key \o UrlPart \o Itoa(partNumber) \o UrlUpload \o id

\* upload ids CreateMultipartUpload may hand out
UploadIDs == {UploadIdA, UploadIdB}

\* variant of PartCall that passes the object key where the upload id belongs
PartCallWrongID(key, id, partNumber, exp) ==
  [op |-> "PresignUploadPart", key |-> key, uploadID |-> key,
   partNumber |-> partNumber, expires |-> exp]

\* the arguments s.s3Client.PresignUploadPart is called with
PartCall(key, id, partNumber, exp) ==
  [op |-> "PresignUploadPart", key |-> key, uploadID |-> id,
   partNumber |-> partNumber, expires |-> exp]

\* a storage call as the client saw it: the arguments sent, whether the call
\* succeeded, and the string it returned
Logged(args, ok, out) == [args |-> args, ok |-> ok, out |-> out]

\* variant of FailedPartCalls that aborts the upload before returning
FailedPartCallsAborting(cs, args) ==
  Append(Append(cs, Logged(args, FALSE, Empty)),
         Logged([op |-> "AbortMultipartUpload", key |-> args.key,
                 uploadID |-> args.uploadID], TRUE, Empty))

\* the storage calls on record when PresignUploadPart has failed and
\* createUploadDetails returns its error: the failed call is the last one
FailedPartCalls(cs, args) == Append(cs, Logged(args, FALSE, Empty))

\* ------------------------------------------------------------ inputs
Sizes ==
  {k * MB + d : k \in 0..MaxSmallMB, d \in {-1, 0, 1}} \cup
  {k * MB + d : k \in (maxParts - ClampProbe)..(maxParts + ClampProbe), d \in {-1, 0, 1}}

HandlerSizes == {k * MB + d : k \in 0..MaxSmallMB, d \in {-1, 0, 1}}

Mimes == {MimeJpeg, MimeJpegUpper, MimePng, MimeMp4, MimeText}

Modes == {"", "auto", "force", "off", "bogus"}

Shards == {Empty, ShardAB}

Clock == 0..MaxClock

\* profiles a caller of the service may pass
ServiceProfiles == {Profiles[n] : n \in DOMAIN Profiles} \cup {DefaultProfile}

\* PresignRequest values a direct caller of the service passes
ServiceRequests ==
  [KeyBase : {KeyBaseA}, Ext : {ExtJpg}, Mime : Mimes, SizeBytes : Sizes,
   Kind : {KindImage}, Profile : {NameAvatar}, Multipart : Modes, Shard : Shards]

\* the zero PresignRequest, as json.Decode leaves it when nothing was decoded
ZeroRequest ==
  [KeyBase |-> Empty, Ext |-> Empty, Mime |-> Empty, SizeBytes |-> 0,
   Kind |-> Empty, Profile |-> Empty, Multipart |-> "", Shard |-> Empty]

\* PresignRequest bodies that reach the HTTP handler
HandlerBodies ==
  [KeyBase : {Empty, KeyBaseA}, Ext : {Empty, ExtJpg},
   Mime : {Empty, MimeJpeg, MimeMp4, MimeText}, SizeBytes : HandlerSizes,
   Kind : {Empty, KindImage, KindVideo},
   Profile : {Empty, NameAvatar, NameVideo, NameDefault, NameMissing},
   Multipart : {"", "force"}, Shard : {Empty}]

\* context.Background(): a context that is never cancelled
Background == [done |-> FALSE]

\* HTTP requests: BodyOK is whether the body decodes as JSON, Ctx is
\* r.Context(), which net/http cancels when the client goes away
HttpRequests ==
  [Method : {"POST", "GET"}, BodyOK : {TRUE}, TLS : BOOLEAN, Host : {HostA},
   Body : HandlerBodies, Ctx : {[done |-> FALSE]}] \cup
  [Method : {"POST", "GET"}, BodyOK : {FALSE}, TLS : BOOLEAN, Host : {HostA},
   Body : {ZeroRequest}, Ctx : {[done |-> FALSE]}]

\* the context HandlePresign hands to PresignUpload, and PresignUpload to
\* every storage call: h.ctx, which main sets to context.Background()
CallCtx(r) == Background

\* ------------------------------------------------------------ state
VARIABLES
  httpReq,    \* Nil or Ptr(r): the HTTP request HandlePresign is serving
  httpResp,   \* Nil or Ptr(response) once the handler has written one
  baseURL,    \* baseURL the handler built from the request
  svcCalls,   \* times PresignUpload was invoked for the current request
  pc,         \* position of the PresignUpload call in flight
  req,        \* its *PresignRequest
  profile,    \* its *config.Profile
  now,        \* time.Now() when it ran
  objectKey, strategy, headers, expiresAt, expires,
  uploadID, numParts, parts, i,   \* locals of createUploadDetails
  calls,      \* storage-client calls made for the current request, in order
  ret,        \* what PresignUpload returned: [resp, err]
  origUploadChan, thumbJobs, uploadErrors,   \* channels of UploadImage
  recvJob     \* job := <-thumbJobs of each thumbnail uploader

httpVars == <<httpReq, httpResp, baseURL>>
planVars == <<objectKey, strategy, headers, expiresAt, expires>>
loopVars == <<uploadID, numParts, parts, i>>
vars == <<httpReq, httpResp, baseURL, svcCalls, pc, req, profile, now,
          objectKey, strategy, headers, expiresAt, expires,
          uploadID, numParts, parts, i, calls, ret,
          origUploadChan, thumbJobs, uploadErrors, recvJob>>

imageVars == <<origUploadChan, thumbJobs, uploadErrors, recvJob>>

\* no UploadImage call exists: its channels and locals are empty
NoImage ==
  /\ origUploadChan = <<>> /\ thumbJobs = <<>> /\ uploadErrors = <<>>
  /\ recvJob = <<>>

NoRet == [resp |-> Nil, err |-> NoErr]

Init ==
  /\ httpReq = Nil /\ httpResp = Nil /\ baseURL = Empty
  /\ svcCalls = 0 /\ pc = "idle"
  /\ req = ZeroRequest /\ profile = DefaultProfile /\ now = 0 /\ NoImage
  /\ objectKey = Empty /\ strategy = "" /\ headers = <<>>
  /\ expiresAt = 0 /\ expires = 0
  /\ uploadID = Empty /\ numParts = 0 /\ parts = <<>> /\ i = 0
  /\ calls = <<>> /\ ret = NoRet

\* no request is being served
Ready == pc = "idle"

\* the request is finished: PresignUpload has returned and, when the call
\* came through the handler, the response is written
Finished == pc = "done" /\ (httpReq = Nil \/ httpResp # Nil)

\* PresignUpload up to its first storage call (service.go 27-55 and the
\* strategy test of createUploadDetails)
Begin(rq, pf, t) ==
  LET verr == ValidateRequest(rq, pf)
      shard == ChooseShard(rq, pf)
      key == buildObjectKey(pf.PathTemplate, rq.KeyBase, rq.Ext, shard)
      strat == determineStrategy(rq.Multipart, rq.SizeBytes, pf.MultipartThresholdMB)
      hdrs == buildRequiredHeaders(rq.Mime)
      expAt == t + pf.TokenTTLSeconds
  IN /\ req' = rq /\ profile' = pf /\ now' = t /\ UNCHANGED imageVars
     /\ svcCalls' = 1
     /\ calls' = <<>>
     /\ uploadID' = Empty /\ numParts' = 0 /\ parts' = <<>> /\ i' = 0
     /\ IF ~verr.nil
        THEN /\ pc' = "done"
             /\ ret' = [resp |-> Nil, err |-> verr]
             /\ objectKey' = Empty /\ strategy' = "" /\ headers' = <<>>
             /\ expiresAt' = 0 /\ expires' = 0
        ELSE /\ pc' = IF strat = "single" THEN "single" ELSE "create"
             /\ ret' = NoRet
             /\ objectKey' = key /\ strategy' = strat /\ headers' = hdrs
             /\ expiresAt' = expAt /\ expires' = expAt - t

\* Service.PresignUpload called directly
PresignUpload ==
  /\ Ready
  /\ \E rq \in ServiceRequests, pf \in ServiceProfiles, t \in Clock :
       Begin(rq, pf, t)
  /\ httpReq' = Nil /\ httpResp' = Nil /\ baseURL' = Empty

\* s.s3Client.PresignPutObject and the return of the single path
PresignPutObject ==
  /\ pc = "single"
  /\ LET sh == SingleHeaders(headers)
         args == [op |-> "PresignPutObject", key |-> objectKey,
                  expires |-> expires, headers |-> sh]
     IN \/ /\ calls' = Append(calls, Logged(args, TRUE, PutURL(objectKey)))
           /\ ret' = Success(objectKey, SingleDetails(PutURL(objectKey), sh, expiresAt))
        \/ /\ calls' = Append(calls, Logged(args, FALSE, Empty))
           /\ ret' = DetailsFailure(StorageDown)
  /\ pc' = "done"
  /\ UNCHANGED <<httpVars, svcCalls, req, profile, now, imageVars, planVars, loopVars>>

\* s.s3Client.CreateMultipartUpload, the part count and make([]PartUpload, n)
CreateMultipartUpload ==
  /\ pc = "create"
  /\ LET args == [op |-> "CreateMultipartUpload", key |-> objectKey,
                  headers |-> headers]
     IN
     \/ /\ calls' = Append(calls, Logged(args, FALSE, Empty))
        /\ ret' = DetailsFailure(MsgCreateMultipart \o StorageDown)
        /\ pc' = "done"
        /\ UNCHANGED loopVars
     \/ \E id \in UploadIDs :
          LET n == NumParts(req.SizeBytes, profile.PartSizeMB)
          IN /\ calls' = Append(calls, Logged(args, TRUE, id))
             /\ uploadID' = id
             /\ numParts' = n
             /\ parts' = [k \in 1..n |-> ZeroPart]
             /\ i' = 0
             /\ IF n > 0
                THEN pc' = "parts" /\ ret' = NoRet
                ELSE /\ pc' = "done"
                     /\ ret' = Success(objectKey,
                                 MultipartDetails(id, profile.PartSizeMB * 1024 * 1024, <<>>))
  /\ UNCHANGED <<httpVars, svcCalls, req, profile, now, imageVars, planVars>>

\* one iteration of the part loop: s.s3Client.PresignUploadPart, then
\* parts[i] = ..., and the return after the last iteration
PresignUploadPart ==
  /\ pc = "parts"
  /\ i < numParts
  /\ LET partNumber == PartNumberOf(i)
         args == PartCall(objectKey, uploadID, partNumber, expires)
         partURL == PartURL(args.key, args.uploadID, args.partNumber)
         ps == [parts EXCEPT ![i + 1] = MakePart(partNumber, partURL, headers, expiresAt)]
     IN \/ /\ calls' = FailedPartCalls(calls, args)
           /\ ret' = PartFailure(partNumber, parts, StorageDown)
           /\ pc' = "done"
           /\ UNCHANGED <<parts, i>>
        \/ /\ calls' = Append(calls, Logged(args, TRUE, partURL))
           /\ parts' = ps
           /\ i' = i + 1
           /\ IF i + 1 < numParts
              THEN pc' = "parts" /\ ret' = NoRet
              ELSE /\ pc' = "done"
                   /\ ret' = Success(objectKey,
                               MultipartDetails(uploadID, profile.PartSizeMB * 1024 * 1024, ps))
  /\ UNCHANGED <<httpVars, svcCalls, req, profile, now, imageVars, planVars, uploadID, numParts>>

\* ------------------------------------------------------------ HTTP handler
\* Handler.writeError
ErrorResp(statusCode, code, message, hint) ==
  [status |-> statusCode, Code |-> code, Message |-> message, Hint |-> hint,
   body |-> Nil]

\* the 200 response carrying the PresignResponse
OKResp(presignResp) ==
  [status |-> StatusOK, Code |-> "", Message |-> Empty, Hint |-> Empty,
   body |-> presignResp]

\* HandlePresign's required-field checks: the first that fails, else Nil
FieldCheck(rq) ==
  IF rq.KeyBase = Empty
  THEN Ptr(ErrorResp(StatusBadRequest, ErrBadRequest, MsgKeyBaseRequired, Empty))
  ELSE IF rq.Ext = Empty
  THEN Ptr(ErrorResp(StatusBadRequest, ErrBadRequest, MsgExtRequired, Empty))
  ELSE IF rq.Mime = Empty
  THEN Ptr(ErrorResp(StatusBadRequest, ErrBadRequest, MsgMimeRequired, Empty))
  ELSE IF rq.SizeBytes <= 0
  THEN Ptr(ErrorResp(StatusBadRequest, ErrBadRequest, MsgSizeRequired, Empty))
  ELSE IF rq.Kind = Empty
  THEN Ptr(ErrorResp(StatusBadRequest, ErrBadRequest, MsgKindRequired, Empty))
  ELSE IF rq.Profile = Empty
  THEN Ptr(ErrorResp(StatusBadRequest, ErrBadRequest, MsgProfileRequired, Empty))
  ELSE Nil

\* variant of ProfileCheck that forgets to compare the kinds
ProfileCheckNoKind(rq) ==
  LET p == GetProfile(rq.Profile)
  IN IF p = Nil
     THEN Ptr(ErrorResp(StatusBadRequest, ErrBadRequest,
                        MsgNoProfile \o rq.Profile, HintNoProfile))
     ELSE Nil

\* HandlePresign's profile lookup and kind check
ProfileCheck(rq) ==
  LET p == GetProfile(rq.Profile)
  IN IF p = Nil
     THEN Ptr(ErrorResp(StatusBadRequest, ErrBadRequest,
                        MsgNoProfile \o rq.Profile, HintNoProfile))
     ELSE IF p.v.Kind # rq.Kind
     THEN Ptr(ErrorResp(StatusBadRequest, ErrBadRequest,
                        MsgKindMismatch \o p.v.Kind \o MsgGot \o rq.Kind, Empty))
     ELSE Nil

\* everything HandlePresign checks before it calls the service
HandlePresignCheck(r) ==
  IF r.Method # "POST"
  THEN Ptr(ErrorResp(StatusMethodNotAllowed, ErrBadRequest, MsgMethodNotAllowed, Empty))
  ELSE IF ~r.BodyOK
  THEN Ptr(ErrorResp(StatusBadRequest, ErrBadRequest, MsgInvalidBody, Empty))
  ELSE IF FieldCheck(r.Body) # Nil THEN FieldCheck(r.Body)
  ELSE ProfileCheck(r.Body)

\* baseURL := fmt.Sprintf("%s://%s", scheme, r.Host)
BaseURL(r) == (IF r.TLS THEN SchemeHttps ELSE SchemeHttp) \o SchemeSep \o r.Host

\* variant of PresignResponseFor that formats the size message it compares
\* against with its two numbers exchanged
PresignResponseForSwapped(rt, rq, pf) ==
  IF ~rt.err.nil
  THEN IF rt.err.msg = MsgMimeNotAllowed \o rq.Mime
       THEN ErrorResp(StatusBadRequest, ErrMimeNotAllowed, rt.err.msg, HintMime)
       ELSE IF rt.err.msg = MsgSizeExceeds \o Itoa(pf.SizeMaxBytes) \o MsgGt \o Itoa(rq.SizeBytes)
       THEN ErrorResp(StatusBadRequest, ErrSizeTooLarge, rt.err.msg, HintSize)
       ELSE ErrorResp(StatusInternalServerError, ErrBadRequest,
                      MsgPresignFailed \o rt.err.msg, Empty)
  ELSE OKResp(rt.resp)

\* the response HandlePresign writes for what PresignUpload returned
PresignResponseFor(rt, rq, pf) ==
  IF ~rt.err.nil
  THEN IF rt.err.msg = MsgMimeNotAllowed \o rq.Mime
       THEN ErrorResp(StatusBadRequest, ErrMimeNotAllowed, rt.err.msg, HintMime)
       ELSE IF rt.err.msg = MsgSizeExceeds \o Itoa(rq.SizeBytes) \o MsgGt \o Itoa(pf.SizeMaxBytes)
       THEN ErrorResp(StatusBadRequest, ErrSizeTooLarge, rt.err.msg, HintSize)
       ELSE ErrorResp(StatusInternalServerError, ErrBadRequest,
                      MsgPresignFailed \o rt.err.msg, Empty)
  ELSE OKResp(rt.resp)

\* HandlePresign up to the service's first storage call; a request that
\* fails a check is answered at once
HandlePresign ==
  /\ Ready
  /\ \E r \in HttpRequests :
       LET chk == HandlePresignCheck(r)
       IN /\ httpReq' = Ptr(r)
          /\ IF chk # Nil
             THEN /\ httpResp' = chk
                  /\ baseURL' = Empty
                  /\ svcCalls' = 0 /\ pc' = "done"
                  /\ req' = ZeroRequest /\ profile' = DefaultProfile /\ now' = 0 /\ UNCHANGED imageVars
                  /\ objectKey' = Empty /\ strategy' = "" /\ headers' = <<>>
                  /\ expiresAt' = 0 /\ expires' = 0
                  /\ uploadID' = Empty /\ numParts' = 0 /\ parts' = <<>> /\ i' = 0
                  /\ calls' = <<>> /\ ret' = NoRet
             ELSE /\ httpResp' = Nil
                  /\ baseURL' = BaseURL(r)
                  /\ \E t \in Clock : Begin(r.Body, GetProfile(r.Body.Profile).v, t)

\* HandlePresign after PresignUpload returned: map the result to a response
HandlePresignReturn ==
  /\ pc = "done"
  /\ httpReq # Nil
  /\ httpResp = Nil
  /\ httpResp' = Ptr(PresignResponseFor(ret, req, profile))
  /\ UNCHANGED <<httpReq, baseURL, svcCalls, pc, req, profile, now, imageVars,
                 planVars, loopVars, calls, ret>>

\* the caller gives up while the service is working on its request:
\* r.Context() is cancelled
CancelRequest ==
  /\ pc \in {"single", "create", "parts"}
  /\ httpReq # Nil
  /\ ~httpReq.v.Ctx.done
  /\ httpReq' = Ptr([httpReq.v EXCEPT !.Ctx = [done |-> TRUE]])
  /\ UNCHANGED <<httpResp, baseURL, svcCalls, pc, req, profile, now, imageVars,
                 planVars, loopVars, calls, ret>>

\* the request is over; its locals are dropped and the server, which keeps
\* nothing between requests, takes the next one
NextRequest ==
  /\ Finished
  /\ httpReq' = Nil /\ httpResp' = Nil /\ baseURL' = Empty
  /\ svcCalls' = 0 /\ pc' = "idle"
  /\ req' = ZeroRequest /\ profile' = DefaultProfile /\ now' = 0 /\ UNCHANGED imageVars
  /\ objectKey' = Empty /\ strategy' = "" /\ headers' = <<>>
  /\ expiresAt' = 0 /\ expires' = 0
  /\ uploadID' = Empty /\ numParts' = 0 /\ parts' = <<>> /\ i' = 0
  /\ calls' = <<>> /\ ret' = NoRet

Next ==
  \/ NextRequest
  \/ PresignUpload
  \/ PresignPutObject
  \/ CreateMultipartUpload
  \/ PresignUploadPart
  \/ HandlePresign
  \/ HandlePresignReturn
  \/ CancelRequest

Spec == Init /\ [][Next]_vars

\* ------------------------------------------------------------ direct calls of the strategy selector
MaxThresholdMB == 2

Thresholds == (-1)..MaxThresholdMB

InitStrategy ==
  /\ httpReq = Nil /\ httpResp = Nil /\ baseURL = Empty
  /\ svcCalls = 0 /\ pc = "idle"
  /\ \E m \in Modes, sz \in Sizes :
       req = [ZeroRequest EXCEPT !.Multipart = m, !.SizeBytes = sz]
  /\ \E th \in Thresholds :
       profile = [DefaultProfile EXCEPT !.MultipartThresholdMB = th]
  /\ now = 0 /\ NoImage
  /\ objectKey = Empty /\ strategy = "" /\ headers = <<>>
  /\ expiresAt = 0 /\ expires = 0
  /\ uploadID = Empty /\ numParts = 0 /\ parts = <<>> /\ i = 0
  /\ calls = <<>> /\ ret = NoRet

\* s.determineStrategy(mode, size, threshold), as the unit test calls it
CallDetermineStrategy ==
  /\ pc = "idle"
  /\ strategy' = determineStrategy(req.Multipart, req.SizeBytes, profile.MultipartThresholdMB)
  /\ pc' = "done"
  /\ UNCHANGED <<httpVars, svcCalls, req, profile, now, imageVars, objectKey, headers,
                 expiresAt, expires, loopVars, calls, ret>>

NextStrategy == CallDetermineStrategy

SpecStrategy == InitStrategy /\ [][NextStrategy]_vars

\* ------------------------------------------------------------ completion and abort of a multipart upload
MaxCompletedParts == 2
MaxPartNumber == 3

\* CompletedPart values a client may send (types.go)
CompletedParts == [PartNumber : 1..MaxPartNumber, ETag : {EtagA, EtagB}]

\* the parts lists of a CompleteMultipartRequest
PartLists == UNION {[1..n -> CompletedParts] : n \in 0..MaxCompletedParts}

\* request bodies: not JSON, JSON without "parts", JSON with a parts list
UploadBodies ==
  {[ok |-> FALSE, parts |-> Nil], [ok |-> TRUE, parts |-> Nil]} \cup
  {[ok |-> TRUE, parts |-> Ptr(l)] : l \in PartLists}

\* object keys and upload ids a client puts into the path
PathKeys == {Empty, KeyBaseA, KeyRaw, KeyWithComplete, KeyWithAbort}
PathIDs == {Empty, UploadIdA, UploadIdB}

\* r.URL.Path of the requests routed to /v1/uploads/
UploadPaths ==
  {PathPrefix \o k \o sep \o id :
     k \in PathKeys, sep \in {SepComplete, SepAbort}, id \in PathIDs}
  \cup {PathInvalid}

UploadRequests ==
  [Method : {"POST", "GET", "DELETE"}, Path : UploadPaths, Body : UploadBodies]

\* json.NewDecoder(r.Body).Decode(&req): an absent "parts" leaves the nil slice
DecodeCompleteRequest(body) ==
  IF ~body.ok THEN [err |-> TRUE, req |-> [Parts |-> <<>>]]
  ELSE [err |-> FALSE,
        req |-> [Parts |-> IF body.parts = Nil THEN <<>> ELSE body.parts.v]]

\* parts := strings.Split(strings.TrimPrefix(r.URL.Path, "/v1/uploads/"), sep)
SplitPath(r, sep) == Split(TrimPrefix(r.Path, PathPrefix), sep)

\* variant of HandleCompleteCheck that lets an empty parts list through
HandleCompleteCheckNoParts(r) ==
  IF r.Method # "POST"
  THEN Ptr(ErrorResp(StatusMethodNotAllowed, ErrBadRequest, MsgMethodNotAllowed, Empty))
  ELSE IF Len(SplitPath(r, SepComplete)) # 2
  THEN Ptr(ErrorResp(StatusBadRequest, ErrBadRequest, MsgInvalidURL, HintComplete))
  ELSE IF DecodeCompleteRequest(r.Body).err
  THEN Ptr(ErrorResp(StatusBadRequest, ErrBadRequest, MsgInvalidBody, Empty))
  ELSE Nil

\* everything HandleCompleteMultipart checks before it calls the service
HandleCompleteCheck(r) ==
  IF r.Method # "POST"
  THEN Ptr(ErrorResp(StatusMethodNotAllowed, ErrBadRequest, MsgMethodNotAllowed, Empty))
  ELSE IF Len(SplitPath(r, SepComplete)) # 2
  THEN Ptr(ErrorResp(StatusBadRequest, ErrBadRequest, MsgInvalidURL, HintComplete))
  ELSE IF DecodeCompleteRequest(r.Body).err
  THEN Ptr(ErrorResp(StatusBadRequest, ErrBadRequest, MsgInvalidBody, Empty))
  ELSE IF Len(DecodeCompleteRequest(r.Body).req.Parts) = 0
  THEN Ptr(ErrorResp(StatusBadRequest, ErrBadRequest, MsgPartsRequired, Empty))
  ELSE Nil

\* everything HandleAbortMultipart checks before it calls the service
HandleAbortCheck(r) ==
  IF r.Method # "DELETE"
  THEN Ptr(ErrorResp(StatusMethodNotAllowed, ErrBadRequest, MsgMethodNotAllowed, Empty))
  ELSE IF Len(SplitPath(r, SepAbort)) # 2
  THEN Ptr(ErrorResp(StatusBadRequest, ErrBadRequest, MsgInvalidURL, HintAbort))
  ELSE Nil

\* Service.CompleteMultipartUpload: the []s3.PartInfo built from req.Parts and
\* the call it makes on the storage client
PartInfos(reqParts) ==
  [k \in 1..Len(reqParts) |->
     [ETag |-> reqParts[k].ETag, PartNumber |-> reqParts[k].PartNumber]]

CompleteCall(key, id, rq) ==
  [op |-> "CompleteMultipartUpload", key |-> key, uploadID |-> id,
   parts |-> PartInfos(rq.Parts)]

\* Service.AbortMultipartUpload: the call it makes on the storage client
AbortCall(key, id) ==
  [op |-> "AbortMultipartUpload", key |-> key, uploadID |-> id]

\* variant of completedParts that sorts the parts by part number
completedPartsSorted(ps) ==
  SortSeq([k \in 1..Len(ps) |-> [ETag |-> ps[k].ETag, PartNumber |-> ps[k].PartNumber]],
          LAMBDA a, b : a.PartNumber < b.PartNumber)

\* Client.CompleteMultipartUpload: completedParts[i] = CompletedPart{ETag,
\* int32(PartNumber)}, for part numbers that int32 holds
completedParts(ps) ==
  [k \in 1..Len(ps) |-> [ETag |-> ps[k].ETag, PartNumber |-> ps[k].PartNumber]]

\* the CompleteMultipartUploadInput the client sends (the bucket is fixed)
CompleteInput(args) ==
  [Key |-> args.key, UploadId |-> args.uploadID,
   MultipartUpload |-> [Parts |-> completedParts(args.parts)]]

\* the AbortMultipartUploadInput the client sends
AbortInput(args) == [Key |-> args.key, UploadId |-> args.uploadID]

\* a storage-client call with the SDK input it built
LoggedInput(args, input, ok) ==
  [args |-> args, input |-> input, ok |-> ok, out |-> Empty]

\* the response HandleCompleteMultipart writes for what the service returned
CompleteResponseFor(err, key) ==
  IF ~err.nil
  THEN ErrorResp(StatusInternalServerError, ErrBadRequest,
                 MsgCompleteFailed \o err.msg, Empty)
  ELSE [status |-> StatusOK, Code |-> "", Message |-> Empty, Hint |-> Empty,
        body |-> Ptr([status |-> "completed", object_key |-> key])]

\* the response HandleAbortMultipart writes for what the service returned
AbortResponseFor(err, id) ==
  IF ~err.nil
  THEN ErrorResp(StatusInternalServerError, ErrBadRequest,
                 MsgAbortFailed \o err.msg, Empty)
  ELSE [status |-> StatusOK, Code |-> "", Message |-> Empty, Hint |-> Empty,
        body |-> Ptr([status |-> "aborted", upload_id |-> id])]

\* HandleCompleteMultipart up to the call of the service; a request that
\* fails a check is answered at once
HandleCompleteMultipart ==
  /\ Ready
  /\ \E r \in UploadRequests :
       LET chk == HandleCompleteCheck(r)
           split == SplitPath(r, SepComplete)
       IN /\ httpReq' = Ptr(r)
          /\ IF chk # Nil
             THEN /\ httpResp' = chk
                  /\ svcCalls' = 0 /\ pc' = "done"
                  /\ UNCHANGED <<req, objectKey, uploadID, parts>>
             ELSE /\ httpResp' = Nil
                  /\ svcCalls' = 1 /\ pc' = "complete"
                  /\ req' = DecodeCompleteRequest(r.Body).req
                  /\ parts' = split
                  /\ objectKey' = split[1]
                  /\ uploadID' = split[2]
  /\ UNCHANGED <<baseURL, profile, now, imageVars, strategy, headers, expiresAt, expires,
                 numParts, i, calls, ret>>

\* the service's CompleteMultipartUpload, the storage client's call and the
\* response the handler writes on return
CompleteMultipartUpload ==
  /\ pc = "complete"
  /\ LET args == CompleteCall(objectKey, uploadID, req)
     IN \/ /\ calls' = Append(calls, LoggedInput(args, CompleteInput(args), TRUE))
           /\ ret' = [resp |-> Nil, err |-> NoErr]
           /\ httpResp' = Ptr(CompleteResponseFor(NoErr, objectKey))
        \/ /\ calls' = Append(calls, LoggedInput(args, CompleteInput(args), FALSE))
           /\ ret' = [resp |-> Nil, err |-> Err(StorageDown)]
           /\ httpResp' = Ptr(CompleteResponseFor(Err(StorageDown), objectKey))
  /\ pc' = "done"
  /\ UNCHANGED <<httpReq, baseURL, svcCalls, req, profile, now, imageVars, planVars, loopVars>>

\* HandleAbortMultipart up to the call of the service
HandleAbortMultipart ==
  /\ Ready
  /\ \E r \in UploadRequests :
       LET chk == HandleAbortCheck(r)
           split == SplitPath(r, SepAbort)
       IN /\ httpReq' = Ptr(r)
          /\ IF chk # Nil
             THEN /\ httpResp' = chk
                  /\ svcCalls' = 0 /\ pc' = "done"
                  /\ UNCHANGED <<objectKey, uploadID, parts>>
             ELSE /\ httpResp' = Nil
                  /\ svcCalls' = 1 /\ pc' = "abort"
                  /\ parts' = split
                  /\ objectKey' = split[1]
                  /\ uploadID' = split[2]
  /\ UNCHANGED <<baseURL, req, profile, now, imageVars, strategy, headers, expiresAt, expires,
                 numParts, i, calls, ret>>

\* the service's AbortMultipartUpload, the storage client's call and the
\* response the handler writes on return
AbortMultipartUpload ==
  /\ pc = "abort"
  /\ LET args == AbortCall(objectKey, uploadID)
     IN \/ /\ calls' = Append(calls, LoggedInput(args, AbortInput(args), TRUE))
           /\ ret' = [resp |-> Nil, err |-> NoErr]
           /\ httpResp' = Ptr(AbortResponseFor(NoErr, uploadID))
        \/ /\ calls' = Append(calls, LoggedInput(args, AbortInput(args), FALSE))
           /\ ret' = [resp |-> Nil, err |-> Err(StorageDown)]
           /\ httpResp' = Ptr(AbortResponseFor(Err(StorageDown), uploadID))
  /\ pc' = "done"
  /\ UNCHANGED <<httpReq, baseURL, svcCalls, req, profile, now, imageVars, planVars, loopVars>>

NextUploads ==
  \/ NextRequest
  \/ HandleCompleteMultipart
  \/ CompleteMultipartUpload
  \/ HandleAbortMultipart
  \/ AbortMultipartUpload

SpecUploads == Init /\ [][NextUploads]_vars

\* ------------------------------------------------------------ direct calls of the key builder
MaxSegments == 3

\* path segments a template is made of; the empty one gives "//" and
\* leading or trailing slashes
Segments == {Empty, SegOriginals, SegFile, SegGlued, PhKeyBase, PhShardOpt, PhShard}

\* strings.Join(segs, "/")
RECURSIVE Join(_)
Join(segs) ==
  IF Len(segs) = 0 THEN Empty
  ELSE IF Len(segs) = 1 THEN segs[1]
  ELSE segs[1] \o Slash \o Join(Tail(segs))

Templates == {Join(segs) : segs \in UNION {[1..n -> Segments] : n \in 1..MaxSegments}}

InitKey ==
  /\ httpReq = Nil /\ httpResp = Nil /\ baseURL = Empty
  /\ svcCalls = 0 /\ pc = "idle"
  /\ \E kb \in {KeyBaseA, KeyTest}, sh \in Shards :
       req = [ZeroRequest EXCEPT !.KeyBase = kb, !.Ext = ExtJpg, !.Shard = sh]
  /\ \E t \in Templates : profile = [DefaultProfile EXCEPT !.PathTemplate = t]
  /\ now = 0 /\ NoImage
  /\ objectKey = Empty /\ strategy = "" /\ headers = <<>>
  /\ expiresAt = 0 /\ expires = 0
  /\ uploadID = Empty /\ numParts = 0 /\ parts = <<>> /\ i = 0
  /\ calls = <<>> /\ ret = NoRet

\* s.buildObjectKey(template, keyBase, ext, shard), as the unit test calls it
CallBuildObjectKey ==
  /\ pc = "idle"
  /\ objectKey' = buildObjectKey(profile.PathTemplate, req.KeyBase, req.Ext, req.Shard)
  /\ pc' = "done"
  /\ UNCHANGED <<httpVars, svcCalls, req, profile, now, imageVars, strategy, headers,
                 expiresAt, expires, loopVars, calls, ret>>

NextKey == CallBuildObjectKey

SpecKey == InitKey /\ [][NextKey]_vars

\* key bases and extensions that themselves hold placeholder text
NestedKeyBases == {KeyBaseA, <<"k">> \o PhExt, PhShardOpt \o <<"k">>}
NestedExts == {ExtJpg, PhShardOpt}

InitKeyNested ==
  /\ httpReq = Nil /\ httpResp = Nil /\ baseURL = Empty
  /\ svcCalls = 0 /\ pc = "idle"
  /\ \E kb \in NestedKeyBases, ex \in NestedExts, sh \in Shards :
       req = [ZeroRequest EXCEPT !.KeyBase = kb, !.Ext = ex, !.Shard = sh]
  /\ \E t \in Templates : profile = [DefaultProfile EXCEPT !.PathTemplate = t]
  /\ now = 0 /\ NoImage
  /\ objectKey = Empty /\ strategy = "" /\ headers = <<>>
  /\ expiresAt = 0 /\ expires = 0
  /\ uploadID = Empty /\ numParts = 0 /\ parts = <<>> /\ i = 0
  /\ calls = <<>> /\ ret = NoRet

SpecKeyNested == InitKeyNested /\ [][NextKey]_vars

\* ------------------------------------------------------------ direct calls of the shard generator
\* key bases GenerateShard is called with: those of its unit test and every
\* string of one to three characters over a small alphabet
ShardKeyBases ==
  {Empty, KeyTest, KeyTest1, KeyTest2, KeyDifferent} \cup
  UNION {[1..n -> {"a", "b", "k", "1"}] : n \in {1, 2, 3}}

InitShard ==
  /\ httpReq = Nil /\ httpResp = Nil /\ baseURL = Empty
  /\ svcCalls = 0 /\ pc = "idle"
  /\ \E kb \in ShardKeyBases : req = [ZeroRequest EXCEPT !.KeyBase = kb]
  /\ profile = DefaultProfile /\ now = 0 /\ NoImage
  /\ objectKey = Empty /\ strategy = "" /\ headers = <<>>
  /\ expiresAt = 0 /\ expires = 0
  /\ uploadID = Empty /\ numParts = 0 /\ parts = <<>> /\ i = 0
  /\ calls = <<>> /\ ret = NoRet

\* GenerateShard(keyBase), as the unit test calls it; ret holds the result
CallGenerateShard ==
  /\ pc = "idle"
  /\ ret' = [resp |-> Ptr(GenerateShard(req.KeyBase)), err |-> NoErr]
  /\ pc' = "done"
  /\ UNCHANGED <<httpVars, svcCalls, req, profile, now, imageVars, planVars, loopVars, calls>>

NextShard == CallGenerateShard

SpecShard == InitShard /\ [][NextShard]_vars

\* ------------------------------------------------------------ concurrent calls
NumCalls == 2

\* most sizes a profile configures for thumbnails
MaxSizes == 2

\* the goroutines net/http runs the handlers on, one per request
Procs == 1..NumCalls

\* variant of Frame that keeps the locals of every call in one place, as
\* fields of the one Service would
FrameOfService(p) == 1

\* where the locals of the call that goroutine p runs live: in its own frame
Frame(p) == p

\* the calls the goroutines make: presign through GetProfile and
\* PresignUpload, complete, abort
ConcurrentJobs ==
  [kind : {"presign"},
   req : [KeyBase : {KeyBaseA, KeyTest}, Ext : {ExtJpg},
          Mime : {MimeJpeg, MimeText}, SizeBytes : {2 * MB},
          Kind : {KindImage}, Profile : {NameAvatar}, Multipart : {"auto", "force"},
          Shard : {Empty}]]
  \cup [kind : {"complete"}, key : {KeyRaw}, id : {UploadIdA},
        req : {[Parts |-> <<[PartNumber |-> 1, ETag |-> EtagA]>>]}]
  \cup [kind : {"abort"}, key : {KeyRaw}, id : {UploadIdB}]

InitConcurrent ==
  /\ httpReq = [p \in Procs |-> Nil] /\ httpResp = [p \in Procs |-> Nil]
  /\ baseURL = [p \in Procs |-> Empty] /\ svcCalls = [p \in Procs |-> 0]
  /\ pc = [p \in Procs |-> "idle"]
  /\ req = [p \in Procs |-> ZeroRequest]
  /\ profile = [p \in Procs |-> DefaultProfile]
  /\ now = [p \in Procs |-> 0] /\ NoImage
  /\ objectKey = [p \in Procs |-> Empty] /\ strategy = [p \in Procs |-> ""]
  /\ headers = [p \in Procs |-> <<>>]
  /\ expiresAt = [p \in Procs |-> 0] /\ expires = [p \in Procs |-> 0]
  /\ uploadID = [p \in Procs |-> Empty] /\ numParts = [p \in Procs |-> 0]
  /\ parts = [p \in Procs |-> <<>>] /\ i = [p \in Procs |-> 0]
  /\ calls = [p \in Procs |-> <<>>] /\ ret = [p \in Procs |-> NoRet]

\* goroutine p takes a call and runs it up to its first storage call
StartCall ==
  \E p \in Procs : \E job \in ConcurrentJobs :
    /\ pc[p] = "idle"
    /\ httpReq' = [httpReq EXCEPT ![p] = Ptr(job)]
    /\ svcCalls' = [svcCalls EXCEPT ![p] = 1]
    /\ req' = [req EXCEPT ![p] = IF job.kind = "abort" THEN @ ELSE job.req]
    /\ CASE job.kind = "presign" ->
              LET rq == job.req
                  pf == GetProfile(rq.Profile).v
                  verr == ValidateRequest(rq, pf)
                  strat == determineStrategy(rq.Multipart, rq.SizeBytes,
                                             pf.MultipartThresholdMB)
              IN /\ profile' = [profile EXCEPT ![p] = pf]
                 /\ IF ~verr.nil
                    THEN /\ pc' = [pc EXCEPT ![p] = "done"]
                         /\ ret' = [ret EXCEPT ![p] = [resp |-> Nil, err |-> verr]]
                         /\ UNCHANGED <<planVars, uploadID>>
                    ELSE /\ pc' = [pc EXCEPT ![p] =
                                     IF strat = "single" THEN "single" ELSE "create"]
                         /\ ret' = ret
                         /\ objectKey' = [objectKey EXCEPT ![Frame(p)] =
                              buildObjectKey(pf.PathTemplate, rq.KeyBase, rq.Ext,
                                             ChooseShard(rq, pf))]
                         /\ strategy' = [strategy EXCEPT ![Frame(p)] = strat]
                         /\ headers' = [headers EXCEPT ![Frame(p)] =
                                          buildRequiredHeaders(rq.Mime)]
                         /\ expiresAt' = [expiresAt EXCEPT ![Frame(p)] =
                                            now[p] + pf.TokenTTLSeconds]
                         /\ expires' = [expires EXCEPT ![Frame(p)] = pf.TokenTTLSeconds]
                         /\ uploadID' = uploadID
         [] OTHER ->
              /\ pc' = [pc EXCEPT ![p] = job.kind]
              /\ objectKey' = [objectKey EXCEPT ![Frame(p)] = job.key]
              /\ uploadID' = [uploadID EXCEPT ![Frame(p)] = job.id]
              /\ UNCHANGED <<profile, ret, strategy, headers, expiresAt, expires>>
    /\ UNCHANGED <<httpResp, baseURL, now, imageVars, numParts, parts, i, calls>>

\* goroutine p: s.s3Client.PresignPutObject and the return of the single path
PutObjectStep ==
  \E p \in Procs :
    /\ pc[p] = "single"
    /\ LET f == Frame(p)
           sh == SingleHeaders(headers[f])
           args == [op |-> "PresignPutObject", key |-> objectKey[f],
                    expires |-> expires[f], headers |-> sh]
       IN \/ /\ calls' = [calls EXCEPT ![p] = Append(@, Logged(args, TRUE, PutURL(args.key)))]
             /\ ret' = [ret EXCEPT ![p] =
                          Success(objectKey[f], SingleDetails(PutURL(args.key), sh, expiresAt[f]))]
          \/ /\ calls' = [calls EXCEPT ![p] = Append(@, Logged(args, FALSE, Empty))]
             /\ ret' = [ret EXCEPT ![p] = DetailsFailure(StorageDown)]
    /\ pc' = [pc EXCEPT ![p] = "done"]
    /\ UNCHANGED <<httpVars, svcCalls, req, profile, now, imageVars, planVars, loopVars>>

\* goroutine p: s.s3Client.CreateMultipartUpload and the part count
CreateStep ==
  \E p \in Procs :
    /\ pc[p] = "create"
    /\ LET f == Frame(p)
           args == [op |-> "CreateMultipartUpload", key |-> objectKey[f],
                    headers |-> headers[f]]
       IN \/ /\ calls' = [calls EXCEPT ![p] = Append(@, Logged(args, FALSE, Empty))]
             /\ ret' = [ret EXCEPT ![p] = DetailsFailure(MsgCreateMultipart \o StorageDown)]
             /\ pc' = [pc EXCEPT ![p] = "done"]
             /\ UNCHANGED loopVars
          \/ \E id \in UploadIDs :
               LET n == NumParts(req[p].SizeBytes, profile[p].PartSizeMB)
               IN /\ calls' = [calls EXCEPT ![p] = Append(@, Logged(args, TRUE, id))]
                  /\ uploadID' = [uploadID EXCEPT ![f] = id]
                  /\ numParts' = [numParts EXCEPT ![f] = n]
                  /\ parts' = [parts EXCEPT ![f] = [k \in 1..n |-> ZeroPart]]
                  /\ i' = [i EXCEPT ![f] = 0]
                  /\ pc' = [pc EXCEPT ![p] = "parts"]
                  /\ ret' = ret
    /\ UNCHANGED <<httpVars, svcCalls, req, profile, now, imageVars, planVars>>

\* goroutine p: one iteration of the part loop and the return after the last
PartStep ==
  \E p \in Procs :
    /\ pc[p] = "parts"
    /\ LET f == Frame(p)
           partNumber == PartNumberOf(i[f])
           args == PartCall(objectKey[f], uploadID[f], partNumber, expires[f])
           partURL == PartURL(args.key, args.uploadID, args.partNumber)
           ps == [parts[f] EXCEPT ![i[f] + 1] =
                    MakePart(partNumber, partURL, headers[f], expiresAt[f])]
       IN IF i[f] >= numParts[f]
          THEN /\ ret' = [ret EXCEPT ![p] =
                            Success(objectKey[f],
                                    MultipartDetails(uploadID[f],
                                                     profile[p].PartSizeMB * 1024 * 1024,
                                                     parts[f]))]
               /\ pc' = [pc EXCEPT ![p] = "done"]
               /\ UNCHANGED <<parts, i, calls>>
          ELSE \/ /\ calls' = [calls EXCEPT ![p] = Append(@, Logged(args, FALSE, Empty))]
                  /\ ret' = [ret EXCEPT ![p] = PartFailure(partNumber, parts[f], StorageDown)]
                  /\ pc' = [pc EXCEPT ![p] = "done"]
                  /\ UNCHANGED <<parts, i>>
               \/ /\ calls' = [calls EXCEPT ![p] = Append(@, Logged(args, TRUE, partURL))]
                  /\ parts' = [parts EXCEPT ![f] = ps]
                  /\ i' = [i EXCEPT ![f] = @ + 1]
                  /\ UNCHANGED <<pc, ret>>
    /\ UNCHANGED <<httpVars, svcCalls, req, profile, now, imageVars, planVars, uploadID, numParts>>

\* goroutine p: the service's CompleteMultipartUpload and the client's call
CompleteStep ==
  \E p \in Procs :
    /\ pc[p] = "complete"
    /\ LET f == Frame(p)
           args == CompleteCall(objectKey[f], uploadID[f], req[p])
       IN \/ /\ calls' = [calls EXCEPT ![p] =
                            Append(@, LoggedInput(args, CompleteInput(args), TRUE))]
             /\ ret' = [ret EXCEPT ![p] = [resp |-> Nil, err |-> NoErr]]
          \/ /\ calls' = [calls EXCEPT ![p] =
                            Append(@, LoggedInput(args, CompleteInput(args), FALSE))]
             /\ ret' = [ret EXCEPT ![p] = [resp |-> Nil, err |-> Err(StorageDown)]]
    /\ pc' = [pc EXCEPT ![p] = "done"]
    /\ UNCHANGED <<httpVars, svcCalls, req, profile, now, imageVars, planVars, loopVars>>

\* goroutine p: the service's AbortMultipartUpload and the client's call
AbortStep ==
  \E p \in Procs :
    /\ pc[p] = "abort"
    /\ LET f == Frame(p)
           args == AbortCall(objectKey[f], uploadID[f])
       IN \/ /\ calls' = [calls EXCEPT ![p] =
                            Append(@, LoggedInput(args, AbortInput(args), TRUE))]
             /\ ret' = [ret EXCEPT ![p] = [resp |-> Nil, err |-> NoErr]]
          \/ /\ calls' = [calls EXCEPT ![p] =
                            Append(@, LoggedInput(args, AbortInput(args), FALSE))]
             /\ ret' = [ret EXCEPT ![p] = [resp |-> Nil, err |-> Err(StorageDown)]]
    /\ pc' = [pc EXCEPT ![p] = "done"]
    /\ UNCHANGED <<httpVars, svcCalls, req, profile, now, imageVars, planVars, loopVars>>

NextConcurrent ==
  \/ StartCall
  \/ PutObjectStep
  \/ CreateStep
  \/ PartStep
  \/ CompleteStep
  \/ AbortStep

SpecConcurrent == InitConcurrent /\ [][NextConcurrent]_vars

\* ------------------------------------------------------------ API key middleware (auth package)
BearerPrefix == <<"B", "e", "a", "r", "e", "r", " ">>
ErrUnauthorized == "unauthorized"
StatusUnauthorized == 401
MsgUnauthorized == <<"I", "n", "v", "a", "l", "i", "d", " ", "o", "r", " ", "m", "i", "s", "s", "i", "n", "g", " ", "A", "P", "I", " ", "k", "e", "y">>
HintUnauthorized == <<"P", "r", "o", "v", "i", "d", "e", " ", "A", "P", "I", " ", "k", "e", "y", " ", "v", "i", "a", " ", "A", "u", "t", "h", "o", "r", "i", "z", "a", "t", "i", "o", "n", ":", " ", "B", "e", "a", "r", "e", "r", " ", "<", "k", "e", "y", ">", " ", "o", "r", " ", "X", "-", "A", "P", "I", "-", "K", "e", "y", ":", " ", "<", "k", "e", "y", ">">>

\* strings.HasPrefix
HasPrefix(s, prefix) ==
  Len(s) >= Len(prefix) /\ SubSeq(s, 1, Len(prefix)) = prefix

\* auth.writeUnauthorized
writeUnauthorized ==
  [status |-> StatusUnauthorized, Code |-> ErrUnauthorized,
   Message |-> MsgUnauthorized, Hint |-> HintUnauthorized, body |-> Nil]

\* variant of APIKeyMiddleware that stops at a present Authorization header
APIKeyMiddlewareBearerFirst(config, r) ==
  IF config.APIKey = Empty THEN TRUE
  ELSE IF r.Header.Authorization # Empty
  THEN /\ HasPrefix(r.Header.Authorization, BearerPrefix)
       /\ TrimPrefix(r.Header.Authorization, BearerPrefix) = config.APIKey
  ELSE r.Header.XAPIKey = config.APIKey

\* APIKeyMiddleware's handler: TRUE when it hands the request to next, FALSE
\* when it answers writeUnauthorized. Header.Get of an absent header is ""
APIKeyMiddleware(config, r) ==
  IF config.APIKey = Empty THEN TRUE
  ELSE IF /\ r.Header.Authorization # Empty
          /\ HasPrefix(r.Header.Authorization, BearerPrefix)
          /\ TrimPrefix(r.Header.Authorization, BearerPrefix) = config.APIKey
  THEN TRUE
  ELSE r.Header.XAPIKey = config.APIKey

\* keys a client may present, and the keys a deployment may configure
PresentedKeys == {<<"k">>, <<"k", "1">>}
AuthConfigs == [APIKey : {Empty} \cup PresentedKeys]

\* values of the Authorization header: absent, well-formed, bare prefix,
\* key without prefix, another scheme
AuthorizationValues ==
  {Empty, BearerPrefix} \cup PresentedKeys
  \cup {BearerPrefix \o k : k \in PresentedKeys}
  \cup {<<"X", " ">> \o k : k \in PresentedKeys}

AuthRequests ==
  [Header : [Authorization : AuthorizationValues,
             XAPIKey : {Empty} \cup PresentedKeys]]

\* the middleware is built for one configuration (kept in profile) and is
\* about to serve one request
InitAuth ==
  /\ \E r \in AuthRequests : httpReq = Ptr(r)
  /\ httpResp = Nil /\ baseURL = Empty
  /\ svcCalls = 0 /\ pc = "idle"
  /\ req = ZeroRequest /\ \E c \in AuthConfigs : profile = c
  /\ now = 0 /\ NoImage
  /\ objectKey = Empty /\ strategy = "" /\ headers = <<>>
  /\ expiresAt = 0 /\ expires = 0
  /\ uploadID = Empty /\ numParts = 0 /\ parts = <<>> /\ i = 0
  /\ calls = <<>> /\ ret = NoRet

\* the handler APIKeyMiddleware returns, serving httpReq; calls records the
\* invocation of next, whose response is the test handler's 200
ServeAuth ==
  /\ pc = "idle"
  /\ IF APIKeyMiddleware(profile, httpReq.v)
     THEN /\ calls' = Append(calls, [op |-> "next.ServeHTTP", r |-> httpReq.v])
          /\ httpResp' = Ptr(OKResp(Nil))
     ELSE /\ calls' = calls
          /\ httpResp' = Ptr(writeUnauthorized)
  /\ pc' = "done"
  /\ UNCHANGED <<httpReq, baseURL, svcCalls, req, profile, now, imageVars, planVars, loopVars, ret>>

NextAuth == ServeAuth

SpecAuth == InitAuth /\ [][NextAuth]_vars

\* ------------------------------------------------------------ image upload (ImageService.UploadImage)
\* sizes a profile may configure: one strconv.Atoi accepts, one it rejects
SizeStrings == {<<"2", "5", "6">>, <<"x">>}

\* configurations of profile.Sizes
ImageProfiles ==
  UNION {[Sizes : [1..n -> SizeStrings]] : n \in 0..MaxSizes}

\* strconv.Atoi succeeds: an unsigned decimal numeral
AtoiOk(s) ==
  Len(s) > 0 /\ \A k \in 1..Len(s) : \E d \in 1..Len(Digit) : s[k] = Digit[d]

ErrOrigUpload == "failed to upload original image to S3"
ErrInvalidSize == "invalid size format"
ErrGenerate == "failed to generate thumbnail"
ErrThumbUpload == "failed to upload thumbnail"

\* the goroutines of one call: the caller, the uploader of the original, one
\* generator and one uploader per configured size
MainG == <<"main", 0>>
OrigG == <<"orig", 0>>
GenG(k) == <<"gen", k>>
UpG(k) == <<"up", k>>
Goroutines(pf) ==
  {MainG, OrigG} \cup {GenG(k) : k \in 1..Len(pf.Sizes)}
  \cup {UpG(k) : k \in 1..Len(pf.Sizes)}

\* make(chan error, 1)
OrigUploadCap == 1

\* make(chan thumbnailJob, len(profile.Sizes))
ThumbJobsCap(pf) == Len(pf.Sizes)

\* variant of UploadErrorsCap for an unbuffered channel
UploadErrorsCapUnbuffered(pf) == 0

\* make(chan error, len(profile.Sizes))
UploadErrorsCap(pf) == Len(pf.Sizes)

\* thumbnailJob, without the image bytes
ThumbnailJob(size, err) == [sizeStr |-> size, err |-> err]

\* UploadImage is about to be called with one profile
InitImage ==
  /\ httpReq = Nil /\ httpResp = Nil /\ baseURL = Empty
  /\ svcCalls = 0
  /\ req = ZeroRequest /\ now = 0
  /\ \E pf \in ImageProfiles :
       /\ profile = pf
       /\ pc = [g \in Goroutines(pf) |-> "new"]
       /\ recvJob = [k \in 1..Len(pf.Sizes) |-> ThumbnailJob(Empty, NoErr)]
  /\ objectKey = Empty /\ strategy = "" /\ headers = <<>>
  /\ expiresAt = 0 /\ expires = 0
  /\ uploadID = Empty /\ numParts = 0 /\ parts = <<>> /\ i = 0
  /\ calls = <<>> /\ ret = NoRet
  /\ origUploadChan = <<>> /\ thumbJobs = <<>> /\ uploadErrors = <<>>

\* UploadImage up to its first receive: the channels are made and every
\* goroutine is started
StartGoroutines ==
  /\ pc[MainG] = "new"
  /\ pc' = [g \in DOMAIN pc |->
              IF g = MainG THEN "waitOrig"
              ELSE IF g[1] = "up" THEN "recv" ELSE "run"]
  /\ UNCHANGED <<httpVars, svcCalls, req, profile, now, planVars, loopVars,
                 calls, ret, imageVars>>

\* the first goroutine: PutObject of the original, then the send of its
\* outcome on origUploadChan, which waits for room in the buffer
UploadOriginal ==
  /\ pc[OrigG] = "run"
  /\ Len(origUploadChan) < OrigUploadCap
  /\ \E e \in {NoErr, Err(ErrOrigUpload)} :
       origUploadChan' = Append(origUploadChan, e)
  /\ pc' = [pc EXCEPT ![OrigG] = "exit"]
  /\ UNCHANGED <<httpVars, svcCalls, req, profile, now, planVars, loopVars,
                 calls, ret, thumbJobs, uploadErrors, recvJob>>

\* a generator goroutine: Atoi, generateThumbnail, then the send of one job
\* on thumbJobs
GenerateThumbnail ==
  \E k \in 1..Len(profile.Sizes) :
    /\ pc[GenG(k)] = "run"
    /\ Len(thumbJobs) < ThumbJobsCap(profile)
    /\ LET size == profile.Sizes[k]
       IN IF ~AtoiOk(size)
          THEN thumbJobs' = Append(thumbJobs, ThumbnailJob(size, Err(ErrInvalidSize)))
          ELSE \E e \in {NoErr, Err(ErrGenerate)} :
                 thumbJobs' = Append(thumbJobs, ThumbnailJob(size, e))
    /\ pc' = [pc EXCEPT ![GenG(k)] = "exit"]
    /\ UNCHANGED <<httpVars, svcCalls, req, profile, now, planVars, loopVars,
                   calls, ret, origUploadChan, uploadErrors, recvJob>>

\* an uploader goroutine: job := <-thumbJobs
ReceiveJob ==
  \E k \in 1..Len(profile.Sizes) :
    /\ pc[UpG(k)] = "recv"
    /\ thumbJobs # <<>>
    /\ recvJob' = [recvJob EXCEPT ![k] = Head(thumbJobs)]
    /\ thumbJobs' = Tail(thumbJobs)
    /\ pc' = [pc EXCEPT ![UpG(k)] = "send"]
    /\ UNCHANGED <<httpVars, svcCalls, req, profile, now, planVars, loopVars,
                   calls, ret, origUploadChan, uploadErrors>>

\* an uploader goroutine after its receive: the job's error, or the outcome
\* of PutObject, is sent on uploadErrors
UploadThumbnail ==
  \E k \in 1..Len(profile.Sizes) :
    /\ pc[UpG(k)] = "send"
    /\ Len(uploadErrors) < UploadErrorsCap(profile)
    /\ IF ~recvJob[k].err.nil
       THEN uploadErrors' = Append(uploadErrors, recvJob[k].err)
       ELSE \E e \in {NoErr, Err(ErrThumbUpload)} :
              uploadErrors' = Append(uploadErrors, e)
    /\ pc' = [pc EXCEPT ![UpG(k)] = "exit"]
    /\ UNCHANGED <<httpVars, svcCalls, req, profile, now, planVars, loopVars,
                   calls, ret, origUploadChan, thumbJobs, recvJob>>

\* UploadImage: err := <-origUploadChan, returning it when it is an error
WaitOriginal ==
  /\ pc[MainG] = "waitOrig"
  /\ origUploadChan # <<>>
  /\ origUploadChan' = Tail(origUploadChan)
  /\ LET err == Head(origUploadChan)
     IN IF ~err.nil
        THEN pc' = [pc EXCEPT ![MainG] = "returned"] /\ ret' = [resp |-> Nil, err |-> err]
        ELSE IF Len(profile.Sizes) = 0
        THEN pc' = [pc EXCEPT ![MainG] = "returned"] /\ ret' = [resp |-> Nil, err |-> NoErr]
        ELSE pc' = [pc EXCEPT ![MainG] = "waitThumbs"] /\ ret' = ret
  /\ i' = 0
  /\ UNCHANGED <<httpVars, svcCalls, req, profile, now, planVars,
                 uploadID, numParts, parts, calls, thumbJobs, uploadErrors, recvJob>>

\* UploadImage: one iteration of the loop over <-uploadErrors, returning the
\* first error it reads, or nil after len(profile.Sizes) receives
WaitThumbnail ==
  /\ pc[MainG] = "waitThumbs"
  /\ uploadErrors # <<>>
  /\ uploadErrors' = Tail(uploadErrors)
  /\ LET err == Head(uploadErrors)
     IN IF ~err.nil
        THEN pc' = [pc EXCEPT ![MainG] = "returned"] /\ ret' = [resp |-> Nil, err |-> err] /\ i' = i
        ELSE IF i + 1 < Len(profile.Sizes)
        THEN pc' = pc /\ ret' = ret /\ i' = i + 1
        ELSE pc' = [pc EXCEPT ![MainG] = "returned"] /\ ret' = [resp |-> Nil, err |-> NoErr] /\ i' = i + 1
  /\ UNCHANGED <<httpVars, svcCalls, req, profile, now, planVars,
                 uploadID, numParts, parts, calls, origUploadChan, thumbJobs, recvJob>>

NextImage ==
  \/ StartGoroutines
  \/ UploadOriginal
  \/ GenerateThumbnail
  \/ ReceiveJob
  \/ UploadThumbnail
  \/ WaitOriginal
  \/ WaitThumbnail

SpecImage == InitImage /\ [][NextImage]_vars

\* a goroutine that can take a step eventually takes one: the scheduler runs
\* every runnable goroutine, and PutObject and generateThumbnail return
SpecImageFair == SpecImage /\ WF_vars(NextImage)

\* ------------------------------------------------------------ direct calls of the profile lookup
\* Profiles maps a deployment may load: any of three names, each bound to
\* one of two profiles
StorageConfigs ==
  UNION {[S -> {ProfileAvatar, ProfileVideo}] :
           S \in SUBSET {NameAvatar, NameVideo, NameDefault}}

\* a request names a profile; profile holds the Profiles map of the
\* configuration the handler was built with
InitProfile ==
  /\ httpReq = Nil /\ httpResp = Nil /\ baseURL = Empty
  /\ svcCalls = 0 /\ pc = "idle"
  /\ \E n \in {Empty, NameAvatar, NameVideo, NameDefault, NameMissing} :
       req = [ZeroRequest EXCEPT !.Profile = n]
  /\ \E sc \in StorageConfigs : profile = sc
  /\ now = 0 /\ NoImage
  /\ objectKey = Empty /\ strategy = "" /\ headers = <<>>
  /\ expiresAt = 0 /\ expires = 0
  /\ uploadID = Empty /\ numParts = 0 /\ parts = <<>> /\ i = 0
  /\ calls = <<>> /\ ret = NoRet

\* HandlePresign's lookup: profile := h.storageConfig.GetProfile(req.Profile)
\* and the 400 it writes when that is nil; ret holds what GetProfile returned
LookupProfile ==
  /\ pc = "idle"
  /\ LET p == GetProfileOf(profile, req.Profile)
     IN /\ ret' = [resp |-> p, err |-> NoErr]
        /\ httpResp' = IF p = Nil
                       THEN Ptr(ErrorResp(StatusBadRequest, ErrBadRequest,
                                          MsgNoProfile \o req.Profile, HintNoProfile))
                       ELSE Nil
  /\ pc' = "done"
  /\ UNCHANGED <<httpReq, baseURL, svcCalls, req, profile, now, imageVars,
                 planVars, loopVars, calls>>

NextProfile == LookupProfile

SpecProfile == InitProfile /\ [][NextProfile]_vars

\* ------------------------------------------------------------ claims

\* C1: a presign request that fails validation (MIME not in the allow-list,
\* or size above the profile maximum) is answered with an error and without
\* any storage-client call.
C1_FailFast ==
  LET inList == \E k \in DOMAIN profile.AllowedMimes : profile.AllowedMimes[k] = req.Mime
  IN (svcCalls = 1 /\ (~inList \/ req.SizeBytes > profile.SizeMaxBytes))
       => /\ calls = <<>>
          /\ pc = "done"
          /\ ret.resp = Nil
          /\ ~ret.err.nil

\* an oversized request with an allowed MIME was turned away
C1_Witness ==
  /\ svcCalls = 1 /\ pc = "done"
  /\ req.Mime = MimeMp4 /\ profile = ProfileVideo
  /\ req.SizeBytes = 101 * MB + 1
  /\ calls = <<>> /\ ~ret.err.nil

\* C2: the strategy selector is a total decision table: force gives
\* multipart, off gives single, every other mode gives multipart exactly when
\* sizeBytes > thresholdMB * 1024 * 1024.
C2_DecisionTable ==
  pc = "done" =>
    /\ strategy \in {"single", "multipart"}
    /\ req.Multipart = "force" => strategy = "multipart"
    /\ req.Multipart = "off" => strategy = "single"
    /\ req.Multipart \notin {"force", "off"} =>
         (strategy = "multipart" <=>
            req.SizeBytes > profile.MultipartThresholdMB * 1048576)

\* an unrecognised mode with a size exactly at the threshold chose single
C2_Witness ==
  /\ pc = "done"
  /\ req.Multipart = "bogus"
  /\ profile.MultipartThresholdMB = 2 /\ req.SizeBytes = 2097152
  /\ strategy = "single"

\* C3: on the multipart path CreateMultipartUpload is called exactly once,
\* before every PresignUploadPart call; every PresignUploadPart call carries
\* the upload id CreateMultipartUpload returned; after a failed
\* CreateMultipartUpload no PresignUploadPart call is made.
C3_CreateFirst ==
  LET creates == {k \in DOMAIN calls : calls[k].args.op = "CreateMultipartUpload"}
      partsAt == {k \in DOMAIN calls : calls[k].args.op = "PresignUploadPart"}
  IN /\ Cardinality(creates) <= 1
     /\ (strategy = "multipart" /\ pc \in {"parts", "done"}) => creates = {1}
     /\ \A k \in partsAt :
          /\ creates = {1}
          /\ calls[1].ok
          /\ calls[k].args.uploadID = calls[1].out
     /\ (creates = {1} /\ ~calls[1].ok) => (partsAt = {} /\ pc = "done")

\* a multipart request whose create and two part calls went through
C3_Witness ==
  /\ Len(calls) = 3
  /\ calls[1].args.op = "CreateMultipartUpload" /\ calls[1].out = UploadIdB
  /\ calls[3].args.op = "PresignUploadPart" /\ calls[3].args.uploadID = UploadIdB

\* C4: a multipart plan for size_bytes >= 1 and a part size of at least 1 MB
\* has min(100, ceil(size_bytes / (partSizeMB * 1024 * 1024))) parts; a
\* computed count above 100 gives exactly 100 parts and no error.
C4_PartCount ==
  LET size == req.SizeBytes
      partBytes == profile.PartSizeMB * 1048576
      allOK == \A k \in DOMAIN calls : calls[k].ok
  IN (pc = "done" /\ strategy = "multipart" /\ allOK
        /\ size >= 1 /\ profile.PartSizeMB >= 1)
       => /\ ret.err.nil
          /\ ret.resp # Nil
          /\ ret.resp.v.Upload.v.Multipart # Nil
          /\ LET n == Len(ret.resp.v.Upload.v.Multipart.v.Parts)
             IN IF size > 100 * partBytes
                THEN n = 100
                ELSE (n - 1) * partBytes < size /\ size <= n * partBytes

\* a request needing 101 parts of 1 MB got a plan of exactly 100
C4_Witness ==
  /\ pc = "done" /\ ret.err.nil /\ ret.resp # Nil
  /\ profile.PartSizeMB = 1 /\ req.SizeBytes = 100 * MB + 1
  /\ ret.resp.v.Upload.v.Multipart # Nil
  /\ Len(ret.resp.v.Upload.v.Multipart.v.Parts) = 100

\* C5: in a returned multipart plan the part at position k has part_number
\* k and method PUT, and the k-th PresignUploadPart call was made with part
\* number k and produced that part's URL.
C5_PartNumbers ==
  (pc = "done" /\ ret.resp # Nil /\ ret.resp.v.Upload.v.Multipart # Nil)
    => LET ps == ret.resp.v.Upload.v.Multipart.v.Parts
       IN /\ Len(calls) = Len(ps) + 1
          /\ \A k \in 1..Len(ps) :
               /\ ps[k].PartNumber = k
               /\ ps[k].Method = "PUT"
               /\ calls[k + 1].args.op = "PresignUploadPart"
               /\ calls[k + 1].args.partNumber = k
               /\ ps[k].URL = calls[k + 1].out

\* a plan of fifty parts was returned
C5_Witness ==
  /\ pc = "done" /\ ret.resp # Nil
  /\ ret.resp.v.Upload.v.Multipart # Nil
  /\ Len(ret.resp.v.Upload.v.Multipart.v.Parts) = 50
  /\ ret.resp.v.Upload.v.Multipart.v.Parts[50].PartNumber = 50

\* C6: when presigning fails for some part, PresignUpload returns an error
\* and no plan; a plan that is returned has all numParts parts and none of
\* them is an empty entry.
C6_NoPartialPlan ==
  /\ (\E k \in DOMAIN calls :
        calls[k].args.op = "PresignUploadPart" /\ ~calls[k].ok)
       => (pc = "done" /\ ret.resp = Nil /\ ~ret.err.nil)
  /\ (pc = "done" /\ ret.resp # Nil /\ ret.resp.v.Upload.v.Multipart # Nil)
       => LET ps == ret.resp.v.Upload.v.Multipart.v.Parts
          IN /\ Len(ps) = numParts
             /\ \A k \in 1..Len(ps) : ps[k] # ZeroPart /\ ps[k].URL # Empty

\* the second of three parts failed after the first had been presigned
C6_Witness ==
  /\ pc = "done" /\ numParts = 3 /\ i = 1
  /\ Len(calls) = 3 /\ ~calls[3].ok
  /\ parts[1] # ZeroPart /\ parts[2] = ZeroPart
  /\ ret.resp = Nil /\ ~ret.err.nil

\* C7: every multipart plan PresignUpload returns carries a Complete
\* descriptor with method POST and an Abort descriptor with method DELETE,
\* whose URLs are <base URL>/v1/uploads/<object_key>/complete/<upload_id>
\* and <base URL>/v1/uploads/<object_key>/abort/<upload_id>.
C7_CompleteAbort ==
  (pc = "done" /\ ret.resp # Nil /\ ret.resp.v.Upload.v.Multipart # Nil)
    => LET mp == ret.resp.v.Upload.v.Multipart.v
           key == ret.resp.v.ObjectKey
           v1Uploads == <<"/", "v", "1", "/", "u", "p", "l", "o", "a", "d", "s", "/">>
           complete == <<"/", "c", "o", "m", "p", "l", "e", "t", "e", "/">>
           abort == <<"/", "a", "b", "o", "r", "t", "/">>
       IN /\ mp.Complete # Nil
          /\ mp.Complete.v.Method = "POST"
          /\ mp.Complete.v.URL = baseURL \o v1Uploads \o key \o complete \o mp.UploadID
          /\ mp.Abort # Nil
          /\ mp.Abort.v.Method = "DELETE"
          /\ mp.Abort.v.URL = baseURL \o v1Uploads \o key \o abort \o mp.UploadID

\* C8: PresignUpload accepts the request's MIME exactly when it equals, character
\* for character, some entry of the profile's allowed list; an empty list
\* rejects every MIME, and a MIME differing from an entry only in letter case
\* is rejected with 'mime type not allowed: <mime>'.
C8_MimeExact ==
  LET inList == \E k \in DOMAIN profile.AllowedMimes : profile.AllowedMimes[k] = req.Mime
      rejected == /\ pc = "done" /\ ret.resp = Nil /\ calls = <<>>
                  /\ ret.err = Err(MsgMimeNotAllowed \o req.Mime)
  IN svcCalls = 1 =>
       /\ inList <=> ~rejected
       /\ profile.AllowedMimes = <<>> => rejected
       /\ (req.Mime = MimeJpegUpper /\ profile.AllowedMimes = <<MimeJpeg>>) => rejected

\* IMAGE/JPEG was refused by a profile that allows image/jpeg
C8_Witness ==
  /\ svcCalls = 1 /\ pc = "done"
  /\ req.Mime = MimeJpegUpper /\ profile.AllowedMimes = <<MimeJpeg, MimePng>>
  /\ ret.resp = Nil
  /\ ret.err.msg = <<"m", "i", "m", "e", " ", "t", "y", "p", "e", " ", "n", "o", "t", " ", "a", "l", "l", "o", "w", "e", "d", ":", " ", "I", "M", "A", "G", "E", "/", "J", "P", "E", "G">>

\* C9: for a request whose MIME is allowed, PresignUpload fails with the size
\* error exactly when size_bytes > size_max_bytes (a size equal to the maximum
\* passes), and the error text contains the requested and the maximum byte
\* counts.
C9_SizeCap ==
  LET inList == \E k \in DOMAIN profile.AllowedMimes : profile.AllowedMimes[k] = req.Mime
      msg == ret.err.msg
      sizeErr == /\ pc = "done" /\ ret.resp = Nil /\ ~ret.err.nil
                 /\ Len(msg) >= Len(MsgSizeExceeds)
                 /\ SubSeq(msg, 1, Len(MsgSizeExceeds)) = MsgSizeExceeds
  IN (svcCalls = 1 /\ inList) =>
       /\ req.SizeBytes > profile.SizeMaxBytes <=> sizeErr
       /\ sizeErr => /\ Contains(msg, Itoa(req.SizeBytes))
                     /\ Contains(msg, Itoa(profile.SizeMaxBytes))
                     /\ calls = <<>>

\* one byte over the 3 MB cap was refused, with both counts in the text
C9_Witness ==
  /\ svcCalls = 1 /\ pc = "done"
  /\ req.Mime = MimeJpeg /\ profile = ProfileAvatar
  /\ req.SizeBytes = 3145729
  /\ ret.err.msg = <<"f", "i", "l", "e", " ", "s", "i", "z", "e", " ", "e", "x", "c", "e", "e", "d", "s", " ", "m", "a", "x", "i", "m", "u", "m", ":", " ", "3", "1", "4", "5", "7", "2", "9", " ", ">", " ", "3", "1", "4", "5", "7", "2", "8">>

C12_SinglePath ==
  strategy = "single" =>
    /\ pc = "single" => calls = <<>>
    /\ pc = "done" =>
         /\ Len(calls) = 1
         /\ calls[1].args.op = "PresignPutObject"
         /\ calls[1].args.key = objectKey
         /\ DOMAIN calls[1].args.headers = {"Content-Type", "If-None-Match"}
         /\ calls[1].args.headers["If-None-Match"] = <<"*">>
         /\ calls[1].args.headers["Content-Type"] = req.Mime
         /\ calls[1].ok <=> ret.resp # Nil
         /\ ret.resp # Nil =>
              /\ ret.resp.v.Upload.v.Single # Nil
              /\ ret.resp.v.Upload.v.Single.v.Method = "PUT"
              /\ ret.resp.v.Upload.v.Single.v.Headers = calls[1].args.headers
              /\ ret.resp.v.Upload.v.Single.v.URL = calls[1].out

\* a PNG upload below the threshold got a single PUT descriptor
C12_Witness ==
  /\ pc = "done" /\ strategy = "single" /\ req.Mime = MimePng
  /\ ret.resp # Nil
  /\ Len(calls) = 1 /\ calls[1].ok
  /\ ret.resp.v.Upload.v.Single.v.Headers["Content-Type"] = MimePng

\* C13: HandleCompleteMultipart answers with code bad_request and makes no
\* service or storage call when the method is not POST (status 405), and
\* otherwise (status 400) when the path does not hold exactly one
\* "/complete/" separator, when the body is not JSON, or when the parts list
\* is missing or empty.
C13_CompleteRejects ==
  [][HandleCompleteMultipart =>
       LET r == httpReq'.v
           p == TrimPrefix(r.Path, PathPrefix)
           seps == {k \in 1..(Len(p) - Len(SepComplete) + 1) :
                     SubSeq(p, k, k + Len(SepComplete) - 1) = SepComplete}
           bad == \/ Cardinality(seps) # 1
                  \/ ~r.Body.ok
                  \/ r.Body.parts = Nil
                  \/ r.Body.parts.v = <<>>
       IN (r.Method # "POST" \/ bad) =>
            /\ httpResp' # Nil
            /\ httpResp'.v.status = (IF r.Method # "POST" THEN 405 ELSE 400)
            /\ httpResp'.v.Code = "bad_request"
            /\ svcCalls' = 0 /\ calls' = <<>> /\ pc' = "done"]_vars

\* a POST to a well-formed completion path with an empty parts list was
\* answered 400 without a storage call
C13_Witness ==
  /\ pc = "done" /\ httpReq # Nil /\ httpResp # Nil
  /\ httpReq.v.Method = "POST"
  /\ httpReq.v.Path = PathPrefix \o KeyRaw \o SepComplete \o UploadIdA
  /\ httpReq.v.Body = [ok |-> TRUE, parts |-> Ptr(<<>>)]
  /\ httpResp.v.status = 400 /\ httpResp.v.Message = MsgPartsRequired
  /\ calls = <<>> /\ svcCalls = 0

\* C14: completion forwards to the storage client a parts list of the same
\* length and order as the caller's, entry by entry with the same part number
\* and ETag, with the caller's object key and upload id; the client hands the
\* same list on to the storage backend.
C14_ForwardVerbatim ==
  (pc = "done" /\ svcCalls = 1 /\ "Parts" \in DOMAIN req)
    => /\ Len(calls) = 1
       /\ calls[1].args.op = "CompleteMultipartUpload"
       /\ calls[1].args.key = objectKey
       /\ calls[1].args.uploadID = uploadID
       /\ calls[1].input.Key = objectKey
       /\ calls[1].input.UploadId = uploadID
       /\ LET sent == httpReq.v.Body.parts.v
              fwd == calls[1].args.parts
              sdk == calls[1].input.MultipartUpload.Parts
          IN /\ sent # <<>>
             /\ Len(fwd) = Len(sent) /\ Len(sdk) = Len(sent)
             /\ \A k \in 1..Len(sent) :
                  /\ fwd[k].PartNumber = sent[k].PartNumber
                  /\ fwd[k].ETag = sent[k].ETag
                  /\ sdk[k].PartNumber = sent[k].PartNumber
                  /\ sdk[k].ETag = sent[k].ETag

\* parts sent out of order and with a gap (3, then 1) reached the storage
\* backend as sent
C14_Witness ==
  /\ pc = "done" /\ Len(calls) = 1
  /\ calls[1].args.op = "CompleteMultipartUpload"
  /\ calls[1].ok
  /\ calls[1].input.MultipartUpload.Parts =
       <<[ETag |-> EtagA, PartNumber |-> 3], [ETag |-> EtagB, PartNumber |-> 1]>>

C16_RoundTrip ==
  [][/\ \A k \in PathKeys, id \in PathIDs :
          /\ (/\ HandleCompleteMultipart
              /\ httpReq'.v.Method = "POST"
              /\ httpReq'.v.Path = PathPrefix \o k \o SepComplete \o id
              /\ httpReq'.v.Body.ok /\ httpReq'.v.Body.parts # Nil
              /\ httpReq'.v.Body.parts.v # <<>>)
               => (pc' = "complete" /\ objectKey' = k /\ uploadID' = id)
          /\ (/\ HandleAbortMultipart
              /\ httpReq'.v.Method = "DELETE"
              /\ httpReq'.v.Path = PathPrefix \o k \o SepAbort \o id)
               => (pc' = "abort" /\ objectKey' = k /\ uploadID' = id)
     /\ CompleteMultipartUpload =>
          /\ calls'[1].args.key = objectKey /\ calls'[1].args.uploadID = uploadID
          /\ calls'[1].ok => (httpResp'.v.status = 200
                              /\ httpResp'.v.body.v.object_key = objectKey)
     /\ AbortMultipartUpload =>
          /\ calls'[1].args.key = objectKey /\ calls'[1].args.uploadID = uploadID
          /\ calls'[1].ok => (httpResp'.v.status = 200
                              /\ httpResp'.v.body.v.upload_id = uploadID)]_vars

\* C17: when PresignUpload returns an error, HandlePresign answers 400
\* mime_not_allowed for a MIME type outside the profile's list, 400
\* size_too_large for a size above the profile's cap, and 500 with a message
\* that contains the cause for a failed storage call; it never answers 200.
C17_ErrorMapping ==
  (httpResp # Nil /\ svcCalls = 1 /\ ~ret.err.nil) =>
    LET mimeOK == \E k \in 1..Len(profile.AllowedMimes) : profile.AllowedMimes[k] = req.Mime
        sizeOK == req.SizeBytes <= profile.SizeMaxBytes
    IN /\ httpResp.v.status # 200
       /\ httpResp.v.body = Nil
       /\ ~mimeOK =>
            (httpResp.v.status = 400 /\ httpResp.v.Code = "mime_not_allowed")
       /\ (mimeOK /\ ~sizeOK) =>
            (httpResp.v.status = 400 /\ httpResp.v.Code = "size_too_large")
       /\ (mimeOK /\ sizeOK) =>
            /\ calls # <<>> /\ ~calls[Len(calls)].ok
            /\ httpResp.v.status = 500
            /\ Contains(httpResp.v.Message, StorageDown)
            /\ Contains(httpResp.v.Message, ret.err.msg)

\* a part presign failed after the upload was created and the handler
\* answered 500 naming the cause
C17_Witness ==
  /\ httpResp # Nil /\ svcCalls = 1 /\ ~ret.err.nil
  /\ Len(calls) >= 2 /\ ~calls[Len(calls)].ok
  /\ httpResp.v.status = 500
  /\ Contains(httpResp.v.Message, StorageDown)

\* C18: with a non-empty shard, buildObjectKey returns the template in which
\* every {key_base} is replaced by key_base, every {ext} by ext and every
\* {shard?} and {shard} by the shard, all other text unchanged;
\* "originals/{shard?}/{key_base}.{ext}" with "test-key", "jpg", "ab" gives
\* "originals/ab/test-key.jpg".
C18_Substitution ==
  (pc = "done" /\ req.Shard # Empty) =>
    LET RECURSIVE Subst(_)
        Subst(t) ==
          IF t = Empty THEN Empty
          ELSE IF Len(t) >= Len(PhKeyBase) /\ SubSeq(t, 1, Len(PhKeyBase)) = PhKeyBase
               THEN req.KeyBase \o Subst(SubSeq(t, Len(PhKeyBase) + 1, Len(t)))
          ELSE IF Len(t) >= Len(PhExt) /\ SubSeq(t, 1, Len(PhExt)) = PhExt
               THEN req.Ext \o Subst(SubSeq(t, Len(PhExt) + 1, Len(t)))
          ELSE IF Len(t) >= Len(PhShardOpt) /\ SubSeq(t, 1, Len(PhShardOpt)) = PhShardOpt
               THEN req.Shard \o Subst(SubSeq(t, Len(PhShardOpt) + 1, Len(t)))
          ELSE IF Len(t) >= Len(PhShard) /\ SubSeq(t, 1, Len(PhShard)) = PhShard
               THEN req.Shard \o Subst(SubSeq(t, Len(PhShard) + 1, Len(t)))
          ELSE <<Head(t)>> \o Subst(Tail(t))
    IN /\ objectKey = Subst(profile.PathTemplate)
       /\ (profile.PathTemplate = TemplateSharded /\ req.KeyBase = KeyTest
           /\ req.Ext = ExtJpg /\ req.Shard = ShardAB)
            => objectKey = KeyShardedTest

\* the documented example was built with shard "ab"
C18_Witness ==
  /\ pc = "done" /\ req.Shard = ShardAB /\ req.KeyBase = KeyTest
  /\ profile.PathTemplate = TemplateSharded
  /\ objectKey = KeyShardedTest

\* C19: with an empty shard, buildObjectKey removes every {shard?}; when each
\* {shard?} of the template is a whole path segment the result is the
\* template without those segments (no {shard?} text, no "//" and no leading
\* or trailing slash that the template did not already have);
\* "originals/{shard?}/{key_base}.{ext}" with "test-key", "jpg" gives
\* "originals/test-key.jpg".
C19_ShardRemoved ==
  (pc = "done" /\ req.Shard = Empty) =>
    LET t == profile.PathTemplate
        segs == Split(t, Slash)
        standalone == \A k \in 1..Len(segs) :
                        Contains(segs[k], PhShardOpt) => segs[k] = PhShardOpt
        kept == SelectSeq(segs, LAMBDA g : g # PhShardOpt)
        fill(g) == ReplaceAll(ReplaceAll(g, PhKeyBase, req.KeyBase), PhExt, req.Ext)
        clean(x) == /\ ~Contains(x, <<"/", "/">>)
                    /\ x # Empty => (Head(x) # "/" /\ x[Len(x)] # "/")
    IN /\ ~Contains(objectKey, PhShardOpt)
       /\ standalone =>
            /\ objectKey = Join([k \in 1..Len(kept) |-> fill(kept[k])])
            /\ clean(t) => clean(objectKey)
       /\ (t = TemplateSharded /\ req.KeyBase = KeyTest /\ req.Ext = ExtJpg)
            => objectKey = KeyPlainTest

\* the documented example was built without a shard
C19_Witness ==
  /\ pc = "done" /\ req.Shard = Empty /\ req.KeyBase = KeyTest
  /\ profile.PathTemplate = TemplateSharded
  /\ objectKey = KeyPlainTest

\* C20: for every key_base, the empty string included, GenerateShard returns
\* exactly two characters out of 0-9a-f, the lowercase hex form of the first
\* digest byte ("da" for the empty string, "1a" for "test-key-1", "0d" for
\* "test-key-2", "af" for "different-key").
C20_ShardFormat ==
  pc = "done" =>
    LET shard == ret.resp.v
        b == Sha1FirstByte(req.KeyBase)
        val(c) == CHOOSE d \in 0..15 : HexDigit[d + 1] = c
    IN /\ Len(shard) = 2
       /\ \A k \in 1..Len(shard) :
            shard[k] \in {"0", "1", "2", "3", "4", "5", "6", "7", "8", "9",
                          "a", "b", "c", "d", "e", "f"}
       /\ 16 * val(shard[1]) + val(shard[2]) = b
       /\ req.KeyBase = Empty => shard = <<"d", "a">>
       /\ req.KeyBase = KeyTest1 => shard = <<"1", "a">>
       /\ req.KeyBase = KeyTest2 => shard = <<"0", "d">>
       /\ req.KeyBase = KeyDifferent => shard = <<"a", "f">>

\* a key base whose first digest byte is below 16 got a shard with a leading
\* zero
C20_Witness ==
  /\ pc = "done" /\ req.KeyBase = KeyTest2
  /\ Sha1FirstByte(req.KeyBase) < 16
  /\ ret.resp.v = <<"0", "d">>

\* C21: in every multipart plan each part descriptor carries the base
\* request's headers (Content-Type equal to the request MIME and no
\* If-None-Match) and the plan's one expires_at value, and part_size is
\* partSizeMB * 1024 * 1024 bytes.
C21_PartDescriptors ==
  (pc = "done" /\ ret.resp # Nil /\ ret.resp.v.Upload.v.Multipart # Nil) =>
    LET m == ret.resp.v.Upload.v.Multipart.v
    IN /\ m.PartSize = profile.PartSizeMB * 1024 * 1024
       /\ \A k \in 1..Len(m.Parts) :
            /\ DOMAIN m.Parts[k].Headers = {"Content-Type"}
            /\ m.Parts[k].Headers["Content-Type"] = req.Mime
            /\ m.Parts[k].Headers = calls[1].args.headers
            /\ m.Parts[k].ExpiresAt = now + profile.TokenTTLSeconds
            /\ m.Parts[k].ExpiresAt = m.Parts[1].ExpiresAt
            /\ m.Parts[k].Method = "PUT"

\* a plan of at least two parts with a part size of 2 MB was returned
C21_Witness ==
  /\ pc = "done" /\ ret.resp # Nil
  /\ ret.resp.v.Upload.v.Multipart # Nil
  /\ Len(ret.resp.v.Upload.v.Multipart.v.Parts) >= 2
  /\ ret.resp.v.Upload.v.Multipart.v.PartSize = 2 * 1024 * 1024
  /\ ret.resp.v.Upload.v.Multipart.v.Parts[2].Headers["Content-Type"] = req.Mime

\* C22: under every interleaving of concurrent presign, complete and abort
\* calls, the storage calls each call issues and the result it returns are
\* those the call makes when it runs alone with the same storage answers:
\* they are determined by the call's own arguments and the answers to its
\* own storage calls.
C22_Independent ==
  \A p \in Procs :
    httpReq[p] # Nil =>
      LET job == httpReq[p].v
          mine == calls[p]
          n == Len(mine)
      IN CASE job.kind = "presign" ->
                LET rq == job.req
                    pf == GetProfile(rq.Profile).v
                    verr == ValidateRequest(rq, pf)
                    key == buildObjectKey(pf.PathTemplate, rq.KeyBase, rq.Ext,
                                          ChooseShard(rq, pf))
                    hdrs == buildRequiredHeaders(rq.Mime)
                    ttl == pf.TokenTTLSeconds
                    want == NumParts(rq.SizeBytes, pf.PartSizeMB)
                    plan == [k \in 1..(n - 1) |->
                               MakePart(k, mine[k + 1].out, hdrs, ttl)]
                IN IF ~verr.nil
                   THEN n = 0 /\ pc[p] = "done" /\ ret[p] = [resp |-> Nil, err |-> verr]
                   ELSE IF determineStrategy(rq.Multipart, rq.SizeBytes,
                                             pf.MultipartThresholdMB) = "single"
                   THEN /\ n <= 1
                        /\ n = 1 <=> pc[p] = "done"
                        /\ n = 1 =>
                             /\ mine[1].args = [op |-> "PresignPutObject", key |-> key,
                                                expires |-> ttl,
                                                headers |-> SingleHeaders(hdrs)]
                             /\ ret[p] = IF mine[1].ok
                                         THEN Success(key, SingleDetails(mine[1].out,
                                                             SingleHeaders(hdrs), ttl))
                                         ELSE DetailsFailure(StorageDown)
                   ELSE /\ n <= want + 1
                        /\ n >= 1 => mine[1].args = [op |-> "CreateMultipartUpload",
                                                     key |-> key, headers |-> hdrs]
                        /\ \A k \in 2..n :
                             /\ mine[k - 1].ok
                             /\ mine[k].args = PartCall(key, mine[1].out, k - 1, ttl)
                        /\ pc[p] = "done" =>
                             /\ n >= 1
                             /\ (n < want + 1) => ~mine[n].ok
                             /\ ret[p] =
                                  IF mine[n].ok
                                  THEN Success(key, MultipartDetails(mine[1].out,
                                                      pf.PartSizeMB * 1024 * 1024, plan))
                                  ELSE IF n = 1
                                  THEN DetailsFailure(MsgCreateMultipart \o StorageDown)
                                  ELSE PartFailure(n - 1, <<>>, StorageDown)
           [] job.kind = "complete" ->
                /\ n <= 1
                /\ n = 1 <=> pc[p] = "done"
                /\ n = 1 =>
                     /\ mine[1].args = CompleteCall(job.key, job.id, job.req)
                     /\ mine[1].input = CompleteInput(mine[1].args)
                     /\ ret[p].err.nil <=> mine[1].ok
           [] OTHER ->
                /\ n <= 1
                /\ n = 1 <=> pc[p] = "done"
                /\ n = 1 =>
                     /\ mine[1].args = AbortCall(job.key, job.id)
                     /\ mine[1].input = AbortInput(mine[1].args)
                     /\ ret[p].err.nil <=> mine[1].ok

\* two multipart presign calls for different keys ran on the two goroutines
\* and both returned two-part plans for their own keys
C22_Witness ==
  /\ \A p \in {1, 2} : pc[p] = "done" /\ ret[p].resp # Nil
  /\ httpReq[1].v.kind = "presign" /\ httpReq[2].v.kind = "presign"
  /\ httpReq[1].v.req.KeyBase # httpReq[2].v.req.KeyBase
  /\ ret[1].resp.v.Upload.v.Multipart # Nil
  /\ ret[2].resp.v.Upload.v.Multipart # Nil
  /\ Len(ret[1].resp.v.Upload.v.Multipart.v.Parts) = 2
  /\ ret[1].resp.v.ObjectKey # ret[2].resp.v.ObjectKey

\* C23: once the caller of a presign request has cancelled it, the context
\* the storage calls run under is cancelled too and no further storage call
\* is issued for that request.
C23_CancelReachesStorage ==
  [][(httpReq # Nil /\ httpReq.v.Ctx.done /\ pc \in {"single", "create", "parts"})
       => (CallCtx(httpReq.v).done /\ Len(calls') <= Len(calls))]_vars

\* C24: with a non-empty API key configured the middleware invokes the
\* wrapped handler exactly when the Authorization header is "Bearer " followed
\* by the key or the X-API-Key header is the key, and otherwise answers 401
\* "unauthorized" without invoking it; with no key configured every request is
\* passed through
C24_AuthGate ==
  pc = "done" =>
    LET key == profile.APIKey
        h == httpReq.v.Header
        invoked == Len(calls) = 1
    IN /\ Len(calls) <= 1
       /\ IF key = Empty
          THEN invoked
          ELSE /\ invoked <=> (h.Authorization = BearerPrefix \o key \/ h.XAPIKey = key)
               /\ ~invoked => /\ httpResp.v.status = 401
                              /\ httpResp.v.Code = "unauthorized"
               /\ invoked => httpResp.v.status = 200

\* a valid Bearer token was served together with a wrong X-API-Key
C24_Witness ==
  /\ pc = "done"
  /\ profile.APIKey = <<"k">>
  /\ httpReq.v.Header.Authorization = BearerPrefix \o <<"k">>
  /\ httpReq.v.Header.XAPIKey = <<"k", "1">>
  /\ Len(calls) = 1

\* C25: when CreateMultipartUpload has succeeded and the presigning of a part
\* then fails, PresignUpload returns an error and no AbortMultipartUpload call
\* has been made: the failed PresignUploadPart is the last storage call, and
\* neither the service's return nor the handler's response carries the upload
\* id of the session that was opened
C25_NoAbortOnPartFailure ==
  (/\ pc = "done"
   /\ Len(calls) >= 2
   /\ calls[1].args.op = "CreateMultipartUpload" /\ calls[1].ok
   /\ \E k \in 2..Len(calls) :
        calls[k].args.op = "PresignUploadPart" /\ ~calls[k].ok)
    => /\ \A k \in 1..Len(calls) : calls[k].args.op # "AbortMultipartUpload"
       /\ calls[Len(calls)].args.op = "PresignUploadPart"
       /\ calls[Len(calls)].args.uploadID = calls[1].out
       /\ ret.resp = Nil /\ ~ret.err.nil
       /\ ~Contains(ret.err.msg, calls[1].out)
       /\ httpResp # Nil => /\ httpResp.v.body = Nil
                            /\ ~Contains(httpResp.v.Message, calls[1].out)

\* the second part failed after the first was presigned, and the handler has
\* answered
C25_Witness ==
  /\ pc = "done"
  /\ Len(calls) = 3
  /\ calls[1].args.op = "CreateMultipartUpload" /\ calls[1].ok
  /\ calls[2].ok
  /\ calls[3].args.op = "PresignUploadPart" /\ ~calls[3].ok
  /\ httpResp # Nil

\* C26: UploadImage leaves no goroutine blocked: whatever the number of
\* configured sizes and whichever of the original upload, the thumbnail
\* generations and the thumbnail uploads fail, every goroutine eventually
\* finishes its channel operations and exits and UploadImage returns, also
\* when it returned early on the first error it read
C26_NoGoroutineBlocked ==
  <>[](\A g \in DOMAIN pc : pc[g] = (IF g = MainG THEN "returned" ELSE "exit"))

\* UploadImage has returned the original upload's error while a thumbnail
\* uploader that has a job in hand has not yet sent its outcome
C26_Witness ==
  /\ pc[MainG] = "returned"
  /\ ~ret.err.nil /\ ret.err.msg = ErrOrigUpload
  /\ \E k \in 1..Len(profile.Sizes) : pc[UpG(k)] = "send"
  /\ Len(profile.Sizes) = MaxSizes

\* C27: PresignUpload checks the MIME allow-list before the size cap: a
\* request whose MIME is not allowed and whose size exceeds the maximum is
\* answered with the MIME error, and the size error (the service's text, the
\* handler's code size_too_large) appears only for requests whose MIME is
\* allowed
C27_MimeBeforeSize ==
  pc = "done" =>
    LET mimeBad == \A k \in 1..Len(profile.AllowedMimes) :
                     profile.AllowedMimes[k] # req.Mime
        sizeBad == req.SizeBytes > profile.SizeMaxBytes
    IN /\ (mimeBad /\ sizeBad) =>
            /\ ~ret.err.nil
            /\ ret.err.msg = MsgMimeNotAllowed \o req.Mime
            /\ calls = <<>>
            /\ httpResp # Nil => httpResp.v.Code = "mime_not_allowed"
       /\ (~ret.err.nil /\ HasPrefix(ret.err.msg, MsgSizeExceeds)) => ~mimeBad
       /\ (httpResp # Nil /\ httpResp.v.Code = "size_too_large") => ~mimeBad

\* the handler has answered a request that breaks both rules
C27_Witness ==
  /\ pc = "done"
  /\ httpResp # Nil /\ httpResp.v.Code = "mime_not_allowed"
  /\ req.SizeBytes > profile.SizeMaxBytes
  /\ \A k \in 1..Len(profile.AllowedMimes) : profile.AllowedMimes[k] # req.Mime

\* C28: buildObjectKey substitutes step by step over the string built so
\* far: text "{ext}" that a key_base brings in is replaced by ext, and text
\* "{shard?}" that a key_base or an ext brings in is replaced by the shard, or
\* removed when the shard is empty, so that neither placeholder survives in
\* the key; e.g. template "{key_base}" with key_base "k{ext}" and ext "jpg"
\* gives "kjpg", and "{key_base}.{ext}" with key_base "{shard?}k" and ext
\* "{shard?}" gives "abk.ab" for shard "ab" and "k." for no shard
C28_Sequential ==
  pc = "done" =>
    /\ ~Contains(objectKey, PhExt)
    /\ ~Contains(objectKey, PhShardOpt)
    /\ (profile.PathTemplate = PhKeyBase /\ req.KeyBase = <<"k">> \o PhExt
        /\ req.Ext = ExtJpg)
         => objectKey = <<"k", "j", "p", "g">>
    /\ (profile.PathTemplate = SegFile /\ req.KeyBase = PhShardOpt \o <<"k">>
        /\ req.Ext = PhShardOpt)
         => objectKey = (IF req.Shard = Empty THEN <<"k", ".">>
                         ELSE req.Shard \o <<"k", ".">> \o req.Shard)

\* a key was built from a key_base that holds "{ext}" and one from an ext
\* that holds "{shard?}"
C28_Witness ==
  /\ pc = "done"
  /\ profile.PathTemplate = SegFile
  /\ req.KeyBase = <<"k">> \o PhExt
  /\ req.Ext = PhShardOpt
  /\ req.Shard = ShardAB
  /\ objectKey = <<"k", "a", "b", ".", "a", "b">>

\* C29: the shard that goes into the object key is the request's shard when
\* that is non-empty, whatever the profile's sharding flag; it is
\* GenerateShard(key_base) when the request's shard is empty and the profile
\* enables sharding; and it is empty, leaving no shard segment in the key,
\* when the request's shard is empty and sharding is disabled. For
\* "originals/{shard?}/{key_base}.{ext}", "k1", "jpg" the keys are
\* "originals/ab/k1.jpg", "originals/a2/k1.jpg" and "originals/k1.jpg"
C29_ShardChoice ==
  (pc \in {"single", "create", "parts", "done"} /\ svcCalls = 1 /\ objectKey # Empty) =>
    LET used == IF req.Shard # Empty THEN req.Shard
                ELSE IF profile.EnableSharding THEN GenerateShard(req.KeyBase)
                ELSE Empty
        keyWith(sh) == SegOriginals \o Slash \o sh \o Slash \o <<"k", "1", ".", "j", "p", "g">>
    IN /\ objectKey = buildObjectKey(profile.PathTemplate, req.KeyBase, req.Ext, used)
       /\ (profile.PathTemplate = TemplateSharded /\ req.KeyBase = <<"k", "1">>
           /\ req.Ext = <<"j", "p", "g">>)
            => objectKey =
                 (IF req.Shard = <<"a", "b">> THEN keyWith(<<"a", "b">>)
                  ELSE IF profile.EnableSharding THEN keyWith(<<"a", "2">>)
                  ELSE SegOriginals \o Slash \o <<"k", "1", ".", "j", "p", "g">>)

\* a request that names shard "ab" was presigned under a profile that does
\* not enable sharding
C29_Witness ==
  /\ pc = "done" /\ ret.resp # Nil
  /\ req.Shard = ShardAB /\ ~profile.EnableSharding
  /\ profile.PathTemplate = TemplateSharded
  /\ Contains(objectKey, <<"/", "a", "b", "/">>)

\* C30: GetProfile returns nil exactly when the name is neither a configured
\* profile nor "default"; for "default" it returns the configured profile of
\* that name when there is one and the hard-coded default otherwise, so the
\* handler never answers a request naming "default" with "No configuration
\* for profile"
C30_DefaultAlwaysFound ==
  pc = "done" =>
    LET name == req.Profile
        configured == name \in DOMAIN profile
    IN /\ (ret.resp = Nil) <=> (~configured /\ name # <<"d", "e", "f", "a", "u", "l", "t">>)
       /\ configured => ret.resp = Ptr(profile[name])
       /\ name = <<"d", "e", "f", "a", "u", "l", "t">> =>
            /\ ret.resp # Nil
            /\ ~configured => ret.resp.v = DefaultProfile
            /\ httpResp = Nil
       /\ ret.resp = Nil <=> httpResp # Nil

\* "default" was looked up in a configuration that has other profiles but
\* none of that name, and the hard-coded default came back
C30_Witness ==
  /\ pc = "done"
  /\ req.Profile = NameDefault
  /\ DOMAIN profile = {NameAvatar, NameVideo}
  /\ ret.resp = Ptr(DefaultProfile)
  /\ httpResp = Nil

====
